---- MODULE Spec2Model ----
(***************************************************************************)
(* Digital-Court: the trial orchestrator, the juror panel and the driver.  *)
(*                                                                         *)
(* Three specifications share the variables below:                         *)
(*   SpecVerdict  - JurorSwarm construction, get_average_score,            *)
(*                  get_verdict (agents/juror.py)                          *)
(*   SpecConclude - TrialOrchestrator.should_conclude_debate called        *)
(*                  directly (orchestrator/trial.py)                       *)
(*   Spec         - the driver of app.py main() acting on one              *)
(*                  orchestrator, the autonomous-debate generator stepped  *)
(*                  from yield to yield                                    *)
(***************************************************************************)
EXTENDS Integers, Sequences, FiniteSets, TLC

VARIABLES
    profiles,       \* content of jurors.json: sequence of initial_bias_score
    jury,           \* the JurorSwarm object (NoJury before one is constructed)
    avg_out,        \* outcome of the last get_average_score call
    verdict_out,    \* outcome of the last get_verdict call
    settings,       \* the Settings singleton (autonomous debate fields)
    orch,           \* the TrialOrchestrator of the session
    calls,          \* log of the generation calls issued to the agents
    conclude_out,   \* outcome of the last direct should_conclude_debate call
    call_out,       \* outcome of the last direct call of a juror or brain operation
    gen,            \* frame of the run_autonomous_debate generator
    events,         \* the events the generator has yielded to its caller
    answers,        \* the judge's reply drawn for each round's conclusion check
    session,        \* st.session_state of the driver
    last            \* the handler the driver ran last and the state it started from

panelVars == <<profiles, jury, avg_out, verdict_out>>

orchVars == <<settings, orch, calls, conclude_out, call_out>>

orchVarsButOut == <<settings, orch, calls>>

driverVars == <<gen, events, answers, session, last>>

vars == <<profiles, jury, avg_out, verdict_out, settings, orch, calls, conclude_out, call_out,
          gen, events, answers, session, last>>

\* ---------------------------------------------------------------------------
\* Bounds
\* ---------------------------------------------------------------------------
MaxJurors == 5

\* juror scores the profiles may configure (integers within 0..100)
ScoreDomain == {0, 50, 52, 100}

\* orchestrator.jury before a JurorSwarm is assigned (Python None)
NoJury == [assigned |-> FALSE, jurors |-> <<>>, vote_history |-> <<>>]

\* ---------------------------------------------------------------------------
\* Helpers
\* ---------------------------------------------------------------------------
RECURSIVE SumSeq(_)
SumSeq(s) == IF s = <<>> THEN 0 ELSE Head(s) + SumSeq(Tail(s))

RECURSIVE AllSeqs(_, _)
AllSeqs(S, n) ==
    IF n = 0 THEN {<<>>}
    ELSE LET shorter == AllSeqs(S, n - 1)
         IN  shorter \cup {Append(s, x) : s \in {t \in shorter : Len(t) = n - 1}, x \in S}

RECURSIVE Pow2(_)
Pow2(e) == IF e = 0 THEN 1 ELSE 2 * Pow2(e - 1)

\* 2^p mod n, without forming 2^p
RECURSIVE ModPow2(_, _)
ModPow2(p, n) == IF p = 0 THEN 1 % n ELSE (2 * ModPow2(p - 1, n)) % n

\* floor(log2(a / b)) for a >= b > 0
RECURSIVE Log2Floor(_, _)
Log2Floor(a, b) == IF 2 * b <= a THEN 1 + Log2Floor(a, 2 * b) ELSE 0

\* the subsequence of s at the positions in keep, in order
RECURSIVE SelectIdx(_, _, _)
SelectIdx(s, keep, i) ==
    IF i > Len(s) THEN <<>>
    ELSE IF i \in keep THEN <<s[i]>> \o SelectIdx(s, keep, i + 1)
    ELSE SelectIdx(s, keep, i + 1)

\* ---------------------------------------------------------------------------
\* agents/juror.py : JurorSwarm
\* ---------------------------------------------------------------------------

\* JurorBrain.__init__: the score starts at the profile's initial_bias_score
JurorBrain(id, initial_bias_score) ==
    [id |-> id, current_bias_score |-> initial_bias_score,
     deliberation_history |-> <<>>]

\* JurorSwarm._load_jurors: a profile whose agent construction raises
\* GeminiBrainError is skipped, the others are appended in profile order
load_jurors(profs, failing) ==
    LET all == [i \in 1..Len(profs) |-> JurorBrain(i, profs[i])]
    IN  SelectIdx(all, (1..Len(profs)) \ failing, 1)

Scores(js) == [i \in 1..Len(js) |-> js[i].current_bias_score]

\* Python's a / b on ints: ZeroDivisionError when b = 0, else the double
\* nearest to a/b, kept here as the exact quotient num/den; the rounding of
\* the double is accounted for where it matters (FloatDivErr below)
TrueDiv(a, b) ==
    IF b = 0 THEN [status |-> "ZeroDivisionError"]
    ELSE [status |-> "ok", num |-> a, den |-> b]

\* the division without the empty-panel guard of lines 177-178
get_average_score_unguarded(js) == TrueDiv(SumSeq(Scores(js)), Len(js))

\* JurorSwarm.get_average_score
get_average_score(js) ==
    IF js = <<>> THEN [status |-> "ok", num |-> 50, den |-> 1]
    ELSE TrueDiv(SumSeq(Scores(js)), Len(js))

\* The double S/n is S/n + e/(n * 2^p), where 2^-p is the spacing of doubles
\* around S/n; FloatDivErr is e (round to nearest; no tie occurs for
\* n < 2^p).
UlpExp(S, n) == 52 - Log2Floor(S, n)

FloatDivErr(S, n) ==
    LET r == ((S % n) * ModPow2(UlpExp(S, n), n)) % n
    IN  IF 2 * r < n THEN 0 - r ELSE n - r

\* int((avg - 50) * 20000) for the double avg = S/n > 50.
\* avg - 50 is exact in doubles; the product is rounded to the nearest
\* double and int() truncates.  When 20000*(S-50n)/n is not an integer the
\* result is its floor; when it is an integer X the double product falls
\* below X exactly when avg was rounded down by more than half the spacing
\* of the doubles below X, and int() then yields X - 1.
DamagesOf(S, n) ==
    LET k == S - 50 * n
        prod == 20000 * k
        X == prod \div n
        e == FloatDivErr(S, n)
        lg == Log2Floor(X, 1)
        E == IF Pow2(lg) = X THEN lg - 1 ELSE lg
    IN  IF prod % n # 0 THEN X
        ELSE IF e >= 0 THEN X
        ELSE IF 20000 * (0 - e) * Pow2(53 - UlpExp(S, n)) > n * Pow2(E)
             THEN X - 1
             ELSE X

\* the comparison with >= in place of >: a tie would go to the plaintiff
AvgAtLeast50(avg) == avg.num >= 50 * avg.den

\* avg > 50 on the double avg (the comparison agrees with the exact quotient:
\* a quotient above 50 is at least 50 + 1/n, far more than one rounding step)
AvgAbove50(avg) == avg.num > 50 * avg.den

\* a variant of get_verdict with a third outcome at an average of exactly 50
verdict_from_hung(avg, js) ==
    IF avg.status # "ok" THEN [status |-> avg.status]
    ELSE IF AvgAbove50(avg)
         THEN [status |-> "ok", verdict |-> "PLAINTIFF",
               damages |-> DamagesOf(avg.num, avg.den),
               individual_scores |-> Scores(js)]
         ELSE IF AvgAtLeast50(avg)
         THEN [status |-> "ok", verdict |-> "HUNG", damages |-> 0,
               individual_scores |-> Scores(js)]
         ELSE [status |-> "ok", verdict |-> "DEFENSE", damages |-> 0,
               individual_scores |-> Scores(js)]

\* JurorSwarm.get_verdict, given the outcome of get_average_score
verdict_from(avg, js) ==
    IF avg.status # "ok" THEN [status |-> avg.status]
    ELSE IF AvgAbove50(avg)
         THEN [status |-> "ok", verdict |-> "PLAINTIFF",
               damages |-> DamagesOf(avg.num, avg.den),
               individual_scores |-> Scores(js)]
         ELSE [status |-> "ok", verdict |-> "DEFENSE", damages |-> 0,
               individual_scores |-> Scores(js)]

get_verdict(js) == verdict_from(get_average_score(js), js)

\* ---------------------------------------------------------------------------
\* Text: a Python str is a sequence of one-character strings
\* ---------------------------------------------------------------------------
LowerLetters == <<"a", "b", "c", "d", "e", "f", "g", "h", "i", "j", "k", "l", "m",
                  "n", "o", "p", "q", "r", "s", "t", "u", "v", "w", "x", "y", "z">>

UpperLetters == <<"A", "B", "C", "D", "E", "F", "G", "H", "I", "J", "K", "L", "M",
                  "N", "O", "P", "Q", "R", "S", "T", "U", "V", "W", "X", "Y", "Z">>

\* str.upper() on one ASCII character
UpperChar(c) ==
    IF \E i \in 1..26 : LowerLetters[i] = c
    THEN UpperLetters[CHOOSE i \in 1..26 : LowerLetters[i] = c]
    ELSE c

\* str.upper()
Upper(t) == [i \in 1..Len(t) |-> UpperChar(t[i])]

\* str.lower() on one ASCII character
LowerChar(c) ==
    IF \E i \in 1..26 : UpperLetters[i] = c
    THEN LowerLetters[CHOOSE i \in 1..26 : UpperLetters[i] = c]
    ELSE c

\* str.lower()
Lower(t) == [i \in 1..Len(t) |-> LowerChar(t[i])]

\* Python's `sub in t`
Contains(t, sub) ==
    \E i \in 0..(Len(t) - Len(sub)) :
        \A j \in 1..Len(sub) : t[i + j] = sub[j]

CONCLUDE == <<"C", "O", "N", "C", "L", "U", "D", "E">>

\* ---------------------------------------------------------------------------
\* config/settings.py
\* ---------------------------------------------------------------------------
DefaultMinRounds == 2

DefaultMaxRounds == 5

DefaultSettings ==
    [autonomous_min_rounds |-> DefaultMinRounds,
     autonomous_max_rounds |-> DefaultMaxRounds]

\* ---------------------------------------------------------------------------
\* orchestrator/phases.py, orchestrator/trial.py
\* ---------------------------------------------------------------------------
AWAITING_COMPLAINT == "awaiting_complaint"
COURT_ASSEMBLED == "court_assembled"
OPENING_STATEMENTS == "opening_statements"
ARGUMENTS == "arguments"
JURY_DELIBERATION == "jury_deliberation"
VERDICT == "verdict"
ADJOURNED == "adjourned"

TrialPhase == {AWAITING_COMPLAINT, COURT_ASSEMBLED, OPENING_STATEMENTS, ARGUMENTS,
               JURY_DELIBERATION, VERDICT, ADJOURNED}

\* the position of a phase in the declaration order of the enumeration
PhaseRank(phase) ==
    CASE phase = AWAITING_COMPLAINT -> 1
      [] phase = COURT_ASSEMBLED -> 2
      [] phase = OPENING_STATEMENTS -> 3
      [] phase = ARGUMENTS -> 4
      [] phase = JURY_DELIBERATION -> 5
      [] phase = VERDICT -> 6
      [] phase = ADJOURNED -> 7

None == "None"

\* a variant of the constructor that starts the round counter at 1
TrialOrchestrator_round_one ==
    [phase |-> AWAITING_COMPLAINT,
     case_facts |-> None,
     case_title |-> "Untitled Case",
     judge |-> None,
     plaintiff_lawyer |-> None,
     defense_lawyer |-> None,
     jury |-> None,
     transcript |-> <<>>,
     current_round |-> 1]

\* TrialOrchestrator.__init__
TrialOrchestrator ==
    [phase |-> AWAITING_COMPLAINT,
     case_facts |-> None,
     case_title |-> "Untitled Case",
     judge |-> None,
     plaintiff_lawyer |-> None,
     defense_lawyer |-> None,
     jury |-> None,
     transcript |-> <<>>,
     current_round |-> 0]

\* a message body: the template (or "response" for generated text) and its
\* argument (round number, or the ordinal of the generation call that
\* produced the text)
Content(tpl, arg) == [tpl |-> tpl, arg |-> arg]

\* TrialMessage; score -1 stands for None, the timestamp is not modelled
TrialMessage(agent_type, agent_name, content, score) ==
    [agent_type |-> agent_type, agent_name |-> agent_name,
     content |-> content, score |-> score]

\* a variant of _add_to_transcript that puts the newest entry first
add_to_transcript_front(o, agent_type, agent_name, content, score) ==
    [o EXCEPT !.transcript =
        <<TrialMessage(agent_type, agent_name, content, score)>> \o @]

\* TrialOrchestrator._add_to_transcript
add_to_transcript(o, agent_type, agent_name, content, score) ==
    [o EXCEPT !.transcript =
        Append(@, TrialMessage(agent_type, agent_name, content, score))]

\* a variant of set_case that files the case without recording it
set_case_silent(o, facts, title) ==
    [o EXCEPT !.case_facts = facts, !.case_title = title]

\* TrialOrchestrator.set_case
set_case(o, facts, title) ==
    add_to_transcript([o EXCEPT !.case_facts = facts, !.case_title = title],
                      "system", "COURT CLERK", Content("Case filed", 0), -1)

\* a variant of initialize_court that sets the phase with the judge
initialize_court_phase_first(o, fail_at) ==
    LET failed(oo) ==
            [o |-> add_to_transcript(oo, "system", "ERROR",
                                     Content("Initialization failed", 0), -1),
             ret |-> FALSE]
        o1 == add_to_transcript([o EXCEPT !.judge = "JudgeAgent",
                                          !.phase = COURT_ASSEMBLED], "system", "COURT",
                                Content("presiding", 0), -1)
        o2 == [o1 EXCEPT !.plaintiff_lawyer = "LawyerAgent"]
        o3 == add_to_transcript([o2 EXCEPT !.defense_lawyer = "LawyerAgent"],
                                "system", "COURT", Content("counsel entered", 0), -1)
        o4 == add_to_transcript([o3 EXCEPT !.jury = "JurorSwarm"], "system", "COURT",
                                Content("jury seated", 0), -1)
    IN  CASE fail_at = "judge" -> failed(o)
          [] fail_at = "plaintiff" -> failed(o1)
          [] fail_at = "defense" -> failed(o2)
          [] fail_at = "jury" -> failed(o3)
          [] OTHER -> [o |-> [o4 EXCEPT !.phase = COURT_ASSEMBLED], ret |-> TRUE]

\* TrialOrchestrator.initialize_court; fail_at names the construction that
\* raises ("none" when all succeed).  Returns the orchestrator and the
\* boolean result.
initialize_court(o, fail_at) ==
    LET failed(oo) ==
            [o |-> add_to_transcript(oo, "system", "ERROR",
                                     Content("Initialization failed", 0), -1),
             ret |-> FALSE]
        o1 == add_to_transcript([o EXCEPT !.judge = "JudgeAgent"], "system", "COURT",
                                Content("presiding", 0), -1)
        o2 == [o1 EXCEPT !.plaintiff_lawyer = "LawyerAgent"]
        o3 == add_to_transcript([o2 EXCEPT !.defense_lawyer = "LawyerAgent"],
                                "system", "COURT", Content("counsel entered", 0), -1)
        o4 == add_to_transcript([o3 EXCEPT !.jury = "JurorSwarm"], "system", "COURT",
                                Content("jury seated", 0), -1)
    IN  CASE fail_at = "judge" -> failed(o)
          [] fail_at = "plaintiff" -> failed(o1)
          [] fail_at = "defense" -> failed(o2)
          [] fail_at = "jury" -> failed(o3)
          [] OTHER -> [o |-> [o4 EXCEPT !.phase = COURT_ASSEMBLED], ret |-> TRUE]

\* TrialOrchestrator.start_arguments
start_arguments(o) == [o EXCEPT !.phase = ARGUMENTS, !.current_round = 1]

\* a variant of advance_round that counts the round twice
advance_round_twice(o) == [o EXCEPT !.current_round = @ + 2]

\* TrialOrchestrator.advance_round
advance_round(o) == [o EXCEPT !.current_round = @ + 1]

\* TrialOrchestrator.start_jury_deliberation
start_jury_deliberation(o) == [o EXCEPT !.phase = JURY_DELIBERATION]

\* TrialOrchestrator.render_verdict
render_verdict(o) == [o EXCEPT !.phase = VERDICT]

\* a variant of adjourn that returns the court to the assembled state
adjourn_reassembles(o) == [o EXCEPT !.phase = COURT_ASSEMBLED]

\* TrialOrchestrator.adjourn
adjourn(o) == [o EXCEPT !.phase = ADJOURNED]

\* the contents of the transcript entries of the given agent types, in order
RECURSIVE ContentsOf(_, _)
ContentsOf(tr, types) ==
    IF tr = <<>> THEN <<>>
    ELSE IF Head(tr).agent_type \in types
         THEN <<Head(tr).content>> \o ContentsOf(Tail(tr), types)
         ELSE ContentsOf(Tail(tr), types)

\* TrialOrchestrator.get_side_summary: the side's arguments joined (the
\* 800-character cut of the joined text is not modelled)
get_side_summary(o, side) == ContentsOf(o.transcript, {side})

\* one generation call as logged: the agent, the prompt, whether it returned
GenCall(agent, prompt, ok) == [agent |-> agent, prompt |-> prompt, ok |-> ok]

\* a reply of the completion service: a text, or a failure
Reply(text) == [ok |-> TRUE, text |-> text]

FailedReply == [ok |-> FALSE, text |-> <<>>]

\* the prompt built from Prompts.JUDGE_SHOULD_CONCLUDE
ShouldConcludePrompt(o, round_num, st) ==
    [tpl |-> "JUDGE_SHOULD_CONCLUDE",
     plaintiff_summary |-> get_side_summary(o, "plaintiff"),
     defense_summary |-> get_side_summary(o, "defense"),
     round_num |-> round_num,
     max_rounds |-> st.autonomous_max_rounds]

\* variants of should_conclude_debate with a wrong ceiling test, and with the
\* ceiling test made before the floor test
should_conclude_debate_gt(o, log, st, round_num, reply) ==
    IF round_num < st.autonomous_min_rounds
    THEN [log |-> log, raised |-> FALSE, should_conclude |-> FALSE,
          reason |-> "Minimum rounds not reached"]
    ELSE IF round_num > st.autonomous_max_rounds
    THEN [log |-> log, raised |-> FALSE, should_conclude |-> TRUE,
          reason |-> "Maximum rounds reached"]
    ELSE LET log2 == Append(log, GenCall("judge", ShouldConcludePrompt(o, round_num, st),
                                         reply.ok))
             c == Contains(Upper(reply.text), CONCLUDE)
         IN  IF ~reply.ok
             THEN [log |-> log2, raised |-> TRUE, should_conclude |-> FALSE,
                   reason |-> "GeminiBrainError"]
             ELSE [log |-> log2, raised |-> FALSE, should_conclude |-> c,
                   reason |-> IF c THEN "Both parties have made their essential points"
                                   ELSE "Arguments continue"]

should_conclude_debate_ceiling_first(o, log, st, round_num, reply) ==
    IF round_num >= st.autonomous_max_rounds
    THEN [log |-> log, raised |-> FALSE, should_conclude |-> TRUE,
          reason |-> "Maximum rounds reached"]
    ELSE IF round_num < st.autonomous_min_rounds
    THEN [log |-> log, raised |-> FALSE, should_conclude |-> FALSE,
          reason |-> "Minimum rounds not reached"]
    ELSE LET log2 == Append(log, GenCall("judge", ShouldConcludePrompt(o, round_num, st),
                                         reply.ok))
             c == Contains(Upper(reply.text), CONCLUDE)
         IN  IF ~reply.ok
             THEN [log |-> log2, raised |-> TRUE, should_conclude |-> FALSE,
                   reason |-> "GeminiBrainError"]
             ELSE [log |-> log2, raised |-> FALSE, should_conclude |-> c,
                   reason |-> IF c THEN "Both parties have made their essential points"
                                   ELSE "Arguments continue"]

\* TrialOrchestrator.should_conclude_debate; reply is what judge.generate
\* yields if it is called.  Returns the call log, whether the call raised,
\* and the (should_conclude, reason) pair.
should_conclude_debate(o, log, st, round_num, reply) ==
    IF round_num < st.autonomous_min_rounds
    THEN [log |-> log, raised |-> FALSE, should_conclude |-> FALSE,
          reason |-> "Minimum rounds not reached"]
    ELSE IF round_num >= st.autonomous_max_rounds
    THEN [log |-> log, raised |-> FALSE, should_conclude |-> TRUE,
          reason |-> "Maximum rounds reached"]
    ELSE LET log2 == Append(log, GenCall("judge", ShouldConcludePrompt(o, round_num, st),
                                         reply.ok))
             c == Contains(Upper(reply.text), CONCLUDE)
         IN  IF ~reply.ok
             THEN [log |-> log2, raised |-> TRUE, should_conclude |-> FALSE,
                   reason |-> "GeminiBrainError"]
             ELSE [log |-> log2, raised |-> FALSE, should_conclude |-> c,
                   reason |-> IF c THEN "Both parties have made their essential points"
                                   ELSE "Arguments continue"]

\* ---------------------------------------------------------------------------
\* Text operations used by the score extraction
\* ---------------------------------------------------------------------------
NL == "\n"

Digits == <<"0", "1", "2", "3", "4", "5", "6", "7", "8", "9">>

\* str.isdigit() on one ASCII character
IsDigit(c) == \E i \in 1..10 : Digits[i] = c

DigitValue(c) == (CHOOSE i \in 1..10 : Digits[i] = c) - 1

IsSpace(c) == c \in {" ", "\t", NL}

\* t.split(sep) for a one-character separator
RECURSIVE SplitOn(_, _)
SplitOn(t, sep) ==
    IF \A i \in 1..Len(t) : t[i] # sep THEN <<t>>
    ELSE LET k == CHOOSE i \in 1..Len(t) :
                      t[i] = sep /\ \A j \in 1..(i - 1) : t[j] # sep
         IN  <<SubSeq(t, 1, k - 1)>> \o SplitOn(SubSeq(t, k + 1, Len(t)), sep)

\* str.strip()
RECURSIVE Strip(_)
Strip(t) ==
    IF t = <<>> THEN t
    ELSE IF IsSpace(Head(t)) THEN Strip(Tail(t))
    ELSE IF IsSpace(t[Len(t)]) THEN Strip(SubSeq(t, 1, Len(t) - 1))
    ELSE t

\* t[:n]
Take(t, n) == SubSeq(t, 1, IF Len(t) < n THEN Len(t) ELSE n)

\* ''.join(filter(str.isdigit, t))
RECURSIVE FilterDigits(_)
FilterDigits(t) ==
    IF t = <<>> THEN <<>>
    ELSE IF IsDigit(Head(t)) THEN <<Head(t)>> \o FilterDigits(Tail(t))
    ELSE FilterDigits(Tail(t))

\* int(t) for a string of digits; -1 stands for the ValueError of int('')
RECURSIVE ToInt(_)
ToInt(t) ==
    IF t = <<>> THEN -1
    ELSE IF Len(t) = 1 THEN DigitValue(t[1])
    ELSE 10 * ToInt(SubSeq(t, 1, Len(t) - 1)) + DigitValue(t[Len(t)])

Max(a, b) == IF a > b THEN a ELSE b

Min(a, b) == IF a < b THEN a ELSE b

SCORE_COLON == <<"S", "C", "O", "R", "E", ":">>

\* the body of the loop of get_juror_response for one line, given the score
\* so far: a line holding SCORE: yields the clamped integer made of the
\* digits among the first three characters after its last colon
ExtractLine(score, line) ==
    IF Contains(Upper(line), SCORE_COLON)
    THEN LET parts == SplitOn(line, ":")
             n == ToInt(FilterDigits(Take(Strip(parts[Len(parts)]), 3)))
         IN  IF n = -1 THEN score ELSE Max(0, Min(100, n))
    ELSE score

RECURSIVE ExtractLines(_, _)
ExtractLines(score, lines) ==
    IF lines = <<>> THEN score
    ELSE ExtractLines(ExtractLine(score, Head(lines)), Tail(lines))

\* get_juror_response (app.py, ui/phases.py): the score the juror holds after
\* the response text has been scanned
ExtractScore(current_bias_score, response) ==
    ExtractLines(current_bias_score, SplitOn(response, NL))

\* str.startswith
StartsWith(t, prefix) ==
    Len(t) >= Len(prefix) /\ SubSeq(t, 1, Len(prefix)) = prefix

\* a variant of ParseLine that accepts SCORE: anywhere in the line
ParseLine_contains(score, line) ==
    IF Contains(Upper(line), SCORE_COLON)
    THEN LET parts == SplitOn(line, ":")
             n == ToInt(FilterDigits(Take(Strip(parts[Len(parts)]), 3)))
         IN  IF n = -1 THEN score ELSE Max(0, Min(100, n))
    ELSE score

\* the body of the loop of JurorBrain._parse_response for one line, given the
\* score so far (the THOUGHTS: branch sets the monologue only)
ParseLine(score, line) ==
    IF StartsWith(Upper(line), SCORE_COLON)
    THEN LET parts == SplitOn(line, ":")
             n == ToInt(FilterDigits(Take(Strip(parts[Len(parts)]), 3)))
         IN  IF n = -1 THEN score ELSE Max(0, Min(100, n))
    ELSE score

RECURSIVE ParseLines(_, _)
ParseLines(score, lines) ==
    IF lines = <<>> THEN score
    ELSE ParseLines(ParseLine(score, Head(lines)), Tail(lines))

\* JurorBrain._parse_response: the bias_score of the result, which is also
\* the score the juror holds afterwards
parse_response(current_bias_score, response) ==
    ParseLines(current_bias_score, SplitOn(response, NL))

\* line.split(":", 1)[-1]: the text after the first colon, the whole line
\* if it has none
AfterFirstColon(line) ==
    IF \A i \in 1..Len(line) : line[i] # ":" THEN line
    ELSE LET k == CHOOSE i \in 1..Len(line) :
                      line[i] = ":" /\ \A j \in 1..(i - 1) : line[j] # ":"
         IN  SubSeq(line, k + 1, Len(line))

THOUGHTS_COLON == <<"T", "H", "O", "U", "G", "H", "T", "S", ":">>

\* the monologue after the loop of _parse_response: the response itself
\* unless a line starts with THOUGHTS:, and then what follows the first colon
\* of the last such line, stripped
RECURSIVE MonologueLines(_, _)
MonologueLines(monologue, lines) ==
    IF lines = <<>> THEN monologue
    ELSE MonologueLines(
             IF StartsWith(Upper(Head(lines)), THOUGHTS_COLON)
             THEN Strip(AfterFirstColon(Head(lines)))
             ELSE monologue,
             Tail(lines))

\* JurorBrain._parse_response: the result dict
parse_result(current_bias_score, response) ==
    [monologue |-> MonologueLines(response, SplitOn(response, NL)),
     bias_score |-> parse_response(current_bias_score, response)]

NoResult == [monologue |-> <<>>, bias_score |-> -1]

\* JurorBrain.deliberate: generate, then _parse_response, which stores the
\* parsed score in the juror; a failing generate raises before any change
deliberate(juror, reply) ==
    IF ~reply.ok THEN [juror |-> juror, raised |-> TRUE, result |-> NoResult]
    ELSE LET res == parse_result(juror.current_bias_score, reply.text)
         IN  [juror |-> [juror EXCEPT !.current_bias_score = res.bias_score],
              raised |-> FALSE, result |-> res]

\* a variant of the vote that records the neutral score
JurorVote_neutral(juror, score) == [juror_name |-> juror.id, score |-> 50]

\* JurorVote(juror_name, score, reasoning), the reasoning left out
JurorVote(juror, score) == [juror_name |-> juror.id, score |-> score]

\* a variant of the store of a parsed score that keeps the panel's score in
\* one shared place
WorkerWrite_shared(js, i, score) == [js EXCEPT ![1].current_bias_score = score]

\* self.current_bias_score = ... executed by the task of juror i
WorkerWrite(js, i, score) == [js EXCEPT ![i].current_bias_score = score]

\* JurorBrain.think: as deliberate, and the result is appended to
\* deliberation_history
think(juror, reply) ==
    IF ~reply.ok THEN [juror |-> juror, raised |-> TRUE, result |-> NoResult]
    ELSE LET res == parse_result(juror.current_bias_score, reply.text)
         IN  [juror |-> [juror EXCEPT !.current_bias_score = res.bias_score,
                                      !.deliberation_history = Append(@, res)],
              raised |-> FALSE, result |-> res]

\* ---------------------------------------------------------------------------
\* app.py: the phase handlers.  A handler runs on a world
\*   [o: the orchestrator, jury: the JurorSwarm, log: the generation calls,
\*    raised: an exception is propagating]
\* and every step is skipped once an exception propagates.
\* ---------------------------------------------------------------------------
World(o, j, log) == [o |-> o, jury |-> j, log |-> log, raised |-> FALSE]

JUDGE_NAME == "JUDGE MARSHALL"
PLAINTIFF_NAME == "ATTORNEY CHEN (Plaintiff)"
DEFENSE_NAME == "ATTORNEY WEBB (Defense)"

EmptyText == Content("", 0)

\* a prompt: the template and the texts formatted into it
Prompt(tpl, ctx) == [tpl |-> tpl, ctx |-> ctx]

\* orch._add_to_transcript(...) inside a handler
Add(w, agent_type, agent_name, content, score) ==
    IF w.raised THEN w
    ELSE [w EXCEPT !.o = add_to_transcript(@, agent_type, agent_name, content, score)]

\* agent.generate(prompt): the call is logged; a failure raises
Generate(w, agent, prompt, ok) ==
    IF w.raised THEN w
    ELSE [w EXCEPT !.log = Append(@, GenCall(agent, prompt, ok)),
                   !.raised = ~ok]

\* stream_to_placeholder: generate_stream, and on any exception the
\* non-streaming generate; outcome is "stream" (streaming worked),
\* "fallback" (streaming failed, generate worked) or "fail" (both failed).
\* The log keeps one entry for the request, whichever call answered it.
stream_to_placeholder(w, agent, prompt, outcome) ==
    Generate(w, agent, prompt, outcome \in {"stream", "fallback"})

\* the text returned by the last generation call of the world
Response(w) == Content("response", Len(w.log))

\* content of the last transcript entry of the side, "" if none
LastOf(tr, side) ==
    LET c == ContentsOf(tr, {side})
    IN  IF c = <<>> THEN EmptyText ELSE c[Len(c)]

Apply(w, f(_)) == IF w.raised THEN w ELSE [w EXCEPT !.o = f(@)]

StreamOutcomes == {"stream", "fallback", "fail"}

\* run_opening_statements
run_opening_statements(w, p_out, d_out) ==
    LET w1 == Add(w, "judge", JUDGE_NAME, Content("JUDGE_OPEN_COURT", 0), -1)
        w2 == stream_to_placeholder(w1, "plaintiff",
                  Prompt("PLAINTIFF_OPENING", <<>>), p_out)
        w3 == Add(w2, "plaintiff", PLAINTIFF_NAME, Response(w2), -1)
        w4 == Add(w3, "judge", JUDGE_NAME, Content("JUDGE_TRANSITION_TO_DEFENSE", 0), -1)
        w5 == stream_to_placeholder(w4, "defense",
                  Prompt("DEFENSE_OPENING", <<>>), d_out)
        w6 == Add(w5, "defense", DEFENSE_NAME, Response(w5), -1)
        w7 == Add(w6, "judge", JUDGE_NAME, Content("JUDGE_OPENINGS_COMPLETE", 0), -1)
    IN  Apply(w7, start_arguments)

\* a variant of run_argument_round that advances the round on entry
run_argument_round_early_advance(w, p_out, d_out) ==
    LET round_num == w.o.current_round
        w0 == Apply(w, advance_round)
        w1 == Add(w0, "judge", JUDGE_NAME, Content("JUDGE_ARGUMENT_ROUND", round_num), -1)
        w2 == stream_to_placeholder(w1, "plaintiff",
                  Prompt("PLAINTIFF_MAIN_ARGUMENT", <<>>), p_out)
        w3 == Add(w2, "plaintiff", PLAINTIFF_NAME, Response(w2), -1)
        w4 == Add(w3, "judge", JUDGE_NAME, Content("JUDGE_DEFENSE_RESPOND", 0), -1)
        w5 == stream_to_placeholder(w4, "defense",
                  Prompt("DEFENSE_ARGUMENT_WITH_CONTEXT", <<Response(w2)>>), d_out)
    IN  Add(w5, "defense", DEFENSE_NAME, Response(w5), -1)

\* a variant of run_argument_round in which the judge does not call on the
\* defense
run_argument_round_no_cue(w, p_out, d_out) ==
    LET round_num == w.o.current_round
        w1 == Add(w, "judge", JUDGE_NAME, Content("JUDGE_ARGUMENT_ROUND", round_num), -1)
        w2 == stream_to_placeholder(w1, "plaintiff",
                  Prompt("PLAINTIFF_MAIN_ARGUMENT", <<>>), p_out)
        w3 == Add(w2, "plaintiff", PLAINTIFF_NAME, Response(w2), -1)
        w5 == stream_to_placeholder(w3, "defense",
                  Prompt("DEFENSE_ARGUMENT_WITH_CONTEXT", <<Response(w2)>>), d_out)
        w6 == Add(w5, "defense", DEFENSE_NAME, Response(w5), -1)
    IN  Apply(w6, advance_round)

\* the cut of the texts formatted into the prompts of a guided round
PromptCut == 400

\* text[:n]
Cut(text, n) == [text |-> text, upto |-> n]

\* a variant of run_argument_round whose defense prompt is built from the
\* plaintiff's entry of before the round
run_argument_round_stale(w, p_out, d_out) ==
    LET round_num == w.o.current_round
        w1 == Add(w, "judge", JUDGE_NAME, Content("JUDGE_ARGUMENT_ROUND", round_num), -1)
        last_plaintiff == LastOf(w1.o.transcript, "plaintiff")
        last_defense == LastOf(w1.o.transcript, "defense")
        p_prompt == IF round_num = 1
                    THEN Prompt("PLAINTIFF_MAIN_ARGUMENT", <<w.o.case_facts>>)
                    ELSE Prompt("PLAINTIFF_ARGUMENT_WITH_CONTEXT",
                                <<Cut(last_plaintiff, PromptCut),
                                  Cut(last_defense, PromptCut)>>)
        w2 == stream_to_placeholder(w1, "plaintiff", p_prompt, p_out)
        w3 == Add(w2, "plaintiff", PLAINTIFF_NAME, Response(w2), -1)
        w4 == Add(w3, "judge", JUDGE_NAME, Content("JUDGE_DEFENSE_RESPOND", 0), -1)
        w5 == stream_to_placeholder(w4, "defense",
                  Prompt("DEFENSE_ARGUMENT_WITH_CONTEXT",
                         <<Cut(last_plaintiff, PromptCut), Cut(last_defense, PromptCut)>>),
                  d_out)
        w6 == Add(w5, "defense", DEFENSE_NAME, Response(w5), -1)
    IN  Apply(w6, advance_round)

\* run_argument_round
run_argument_round(w, p_out, d_out) ==
    LET round_num == w.o.current_round
        w1 == Add(w, "judge", JUDGE_NAME, Content("JUDGE_ARGUMENT_ROUND", round_num), -1)
        last_plaintiff == LastOf(w1.o.transcript, "plaintiff")
        last_defense == LastOf(w1.o.transcript, "defense")
        p_prompt == IF round_num = 1
                    THEN Prompt("PLAINTIFF_MAIN_ARGUMENT", <<w.o.case_facts>>)
                    ELSE Prompt("PLAINTIFF_ARGUMENT_WITH_CONTEXT",
                                <<Cut(last_plaintiff, PromptCut),
                                  Cut(last_defense, PromptCut)>>)
        w2 == stream_to_placeholder(w1, "plaintiff", p_prompt, p_out)
        w3 == Add(w2, "plaintiff", PLAINTIFF_NAME, Response(w2), -1)
        w4 == Add(w3, "judge", JUDGE_NAME, Content("JUDGE_DEFENSE_RESPOND", 0), -1)
        w5 == stream_to_placeholder(w4, "defense",
                  Prompt("DEFENSE_ARGUMENT_WITH_CONTEXT",
                         <<Cut(Response(w2), PromptCut), Cut(last_defense, PromptCut)>>),
                  d_out)
        w6 == Add(w5, "defense", DEFENSE_NAME, Response(w5), -1)
    IN  Apply(w6, advance_round)

\* TrialOrchestrator.get_recent_arguments: the last `count` lawyer entries
\* (the 200-character cut of each is not modelled)
get_recent_arguments(o, count) ==
    LET c == ContentsOf(o.transcript, {"plaintiff", "defense"})
    IN  SubSeq(c, Max(1, Len(c) - count + 1), Len(c))

RECURSIVE AddJurorEntries(_, _, _, _)
AddJurorEntries(w, order, base, scores) ==
    IF order = <<>> THEN w
    ELSE AddJurorEntries(
             Add(w, "juror", "JUROR", Content("response", base + Head(order)),
                 scores[Head(order)]),
             Tail(order), base, scores)

RECURSIVE LogJurorCalls(_, _, _, _)
LogJurorCalls(log, prompt, replies, i) ==
    IF i > Len(replies) THEN log
    ELSE LogJurorCalls(Append(log, GenCall("juror", prompt, replies[i].ok)),
                       prompt, replies, i + 1)

\* run_jury_deliberation: replies[i] is what juror i's generate yields, order
\* is the order in which the workers complete.  Every worker runs to its end
\* (the executor is shut down with wait), so the jurors whose call returned
\* hold their extracted score even when another juror's call raised.
run_jury_deliberation(w, replies, order) ==
    LET w1 == Add(w, "judge", JUDGE_NAME, Content("JUDGE_JURY_DELIBERATE", 0), -1)
        context == get_recent_arguments(w1.o, 4)
        js == w1.jury.jurors
        new_score(i) == IF replies[i].ok
                        THEN ExtractScore(js[i].current_bias_score, replies[i].text)
                        ELSE js[i].current_bias_score
        js2 == [i \in 1..Len(js) |-> [js[i] EXCEPT !.current_bias_score = new_score(i)]]
        base == Len(w1.log)
        w2 == [w1 EXCEPT !.jury.jurors = js2,
                         !.log = LogJurorCalls(@, Prompt("JUROR_DELIBERATION", context),
                                               replies, 1),
                         !.raised = \E i \in 1..Len(js) : ~replies[i].ok]
        w3 == AddJurorEntries(w2, order, base, [i \in 1..Len(js) |-> new_score(i)])
    IN  IF w.raised THEN w ELSE Apply(w3, start_jury_deliberation)

\* JurorSwarm.deliberate_parallel: every juror deliberates on the context;
\* the votes are collected in the order of completion and appended to
\* vote_history unless a juror's call raised.  The orchestrator is not
\* involved.
deliberate_parallel(j, log, context, replies, order) ==
    LET js == j.jurors
        r(i) == deliberate(js[i], replies[i])
        js2 == [i \in 1..Len(js) |-> r(i).juror]
        raised == \E i \in 1..Len(js) : r(i).raised
        votes == [k \in 1..Len(order) |->
                     JurorVote(js[order[k]], r(order[k]).result.bias_score)]
    IN  [jury |-> [j EXCEPT !.jurors = js2,
                            !.vote_history = IF raised THEN @ ELSE Append(@, votes)],
         log |-> LogJurorCalls(log, Prompt("JUROR_DELIBERATION", context), replies, 1),
         votes |-> votes,
         completed |-> [k \in 1..Len(order) |-> js[order[k]].id],
         raised |-> raised]

\* run_verdict
run_verdict(w, summary_ok) ==
    LET w1 == Add(w, "judge", JUDGE_NAME, Content("JUDGE_PRE_VERDICT", 0), -1)
        w2 == Generate(w1, "judge",
                       Prompt("JUDGE_SUMMARY_PROMPT", get_recent_arguments(w1.o, 4)),
                       summary_ok)
        w3 == Add(w2, "judge", JUDGE_NAME, Response(w2), -1)
        info == get_verdict(w3.jury.jurors)
        text == IF info.verdict = "PLAINTIFF" THEN "VERDICT: PLAINTIFF PREVAILS"
                ELSE IF info.verdict = "DEFENSE" THEN "VERDICT: DEFENSE PREVAILS"
                ELSE "VERDICT: HUNG JURY"
        w4 == IF w3.raised THEN w3
              ELSE IF info.status # "ok" THEN [w3 EXCEPT !.raised = TRUE]
              ELSE Add(w3, "judge", JUDGE_NAME, Content(text, info.damages), -1)
    IN  Apply(w4, adjourn)

\* TrialOrchestrator.export_transcript: the data written to the file; the
\* orchestrator is only read
export_transcript(o, js) ==
    [case_title |-> o.case_title,
     phase |-> o.phase,
     rounds_completed |-> o.current_round - 1,
     verdict |-> IF o.jury # None THEN get_verdict(js) ELSE None,
     transcript |-> o.transcript]

\* ---------------------------------------------------------------------------
\* TrialOrchestrator.run_autonomous_debate: a generator.  Its frame
\*   [pc: the yield it is suspended at, round_num, argument_history,
\*    should_conclude]
\* is advanced by gen_next from one yield to the next; each step returns the
\* world, the frame and the event yielded.
\* ---------------------------------------------------------------------------
NewGenerator ==
    [pc |-> "start", round_num |-> 0, argument_history |-> <<>>,
     should_conclude |-> FALSE]

Event(type, round, flag) == [type |-> type, round |-> round, flag |-> flag]

NoEvent == Event("none", 0, FALSE)

Yield(w, g, pc, ev) == [w |-> w, g |-> [g EXCEPT !.pc = pc], event |-> ev]

\* an exception leaves the generator: it is finished and yields nothing
Raise(w, g) == [w |-> w, g |-> [g EXCEPT !.pc = "dead"], event |-> NoEvent]

\* TrialOrchestrator.get_full_argument_context
get_full_argument_context(o) == ContentsOf(o.transcript, {"plaintiff", "defense"})

\* lines 259-265: phase, the judge's opening, the first yield
GenOpen(w, g) ==
    LET o1 == [w.o EXCEPT !.phase = ARGUMENTS]
        o2 == add_to_transcript(o1, "judge", JUDGE_NAME, Content("JUDGE_OPEN_COURT", 0), -1)
    IN  Yield([w EXCEPT !.o = o2], g, "judge", Event("judge", 0, FALSE))

\* the for loop without the break of lines 321-322
NextRoundNum_no_break(g, st) ==
    LET n == IF g.pc = "judge" THEN 1 ELSE g.round_num + 1
    IN  IF n <= st.autonomous_max_rounds THEN n ELSE 0

\* the round the for loop takes next, 0 when the loop is left: the first
\* round after the opening, none after a round that concluded (break), none
\* past autonomous_max_rounds
NextRoundNum(g, st) ==
    LET n == IF g.pc = "judge" THEN 1 ELSE g.round_num + 1
    IN  IF g.pc = "round_complete" /\ g.should_conclude THEN 0
        ELSE IF n <= st.autonomous_max_rounds THEN n
        ELSE 0

\* lines 324-325 without the phase transition
GenLeaveLoop_no_phase(w, g) ==
    Yield(w, g, "debate_complete", Event("debate_complete", w.o.current_round, FALSE))

\* lines 324-325: the loop is left
GenLeaveLoop(w, g) ==
    LET o1 == [w.o EXCEPT !.phase = JURY_DELIBERATION]
    IN  Yield([w EXCEPT !.o = o1], g, "debate_complete",
              Event("debate_complete", o1.current_round, FALSE))

\* lines 267-269 and 321-325: the head of the loop
GenLoop(w, g, st) ==
    LET n == NextRoundNum(g, st)
    IN  IF n = 0 THEN GenLeaveLoop(w, g)
        ELSE Yield([w EXCEPT !.o.current_round = n], [g EXCEPT !.round_num = n],
                   "round_start", Event("round_start", n, FALSE))

\* lines 271-275
GenHistory(w, g) ==
    Yield(w, [g EXCEPT !.argument_history = get_full_argument_context(w.o)],
          "plaintiff_speaking", Event("plaintiff_speaking", g.round_num, FALSE))

\* a variant of the plaintiff's turn in which the defense speaks
GenPlaintiffTurn_defense_first(w, g, st, ok) ==
    LET w1 == Generate(w, "defense", Prompt("DEFENSE_OPENING", <<>>), ok)
        w2 == Add(w1, "defense", DEFENSE_NAME, Response(w1), -1)
    IN  IF w1.raised THEN Raise(w1, g)
        ELSE Yield(w2, g, "plaintiff_done", Event("plaintiff_done", g.round_num, FALSE))

\* lines 277-288: the plaintiff's turn
GenPlaintiffTurn(w, g, st, ok) ==
    LET prompt == IF g.round_num = 1
                  THEN Prompt("PLAINTIFF_OPENING", <<>>)
                  ELSE Prompt("PLAINTIFF_AUTONOMOUS_ARGUMENT", g.argument_history)
        w1 == Generate(w, "plaintiff", prompt, ok)
        w2 == Add(w1, "plaintiff", PLAINTIFF_NAME, Response(w1), -1)
    IN  IF w1.raised THEN Raise(w1, g)
        ELSE Yield(w2, g, "plaintiff_done", Event("plaintiff_done", g.round_num, FALSE))

\* lines 290-291
GenDefenseAnnounce(w, g) ==
    Yield(w, g, "defense_speaking", Event("defense_speaking", g.round_num, FALSE))

\* lines 293-307: the defense's turn
GenDefenseTurn(w, g, st, ok) ==
    LET history == get_full_argument_context(w.o)
        prompt == IF g.round_num = 1
                  THEN Prompt("DEFENSE_OPENING", <<>>)
                  ELSE Prompt("DEFENSE_AUTONOMOUS_ARGUMENT", history)
        w1 == Generate(w, "defense", prompt, ok)
        w2 == Add(w1, "defense", DEFENSE_NAME, Response(w1), -1)
    IN  IF w1.raised THEN Raise(w1, g)
        ELSE Yield(w2, [g EXCEPT !.argument_history = history], "defense_done",
                   Event("defense_done", g.round_num, FALSE))

\* lines 309-319: the conclusion check and the judge's announcement
GenConclusion(w, g, st, reply) ==
    LET r == should_conclude_debate(w.o, w.log, st, g.round_num, reply)
        w1 == [w EXCEPT !.log = r.log, !.raised = r.raised]
        w2 == Add(w1, "judge", JUDGE_NAME,
                  Content("JUDGE_DEBATE_TRANSITION", g.round_num), -1)
    IN  IF r.raised THEN Raise(w1, g)
        ELSE Yield(w2, [g EXCEPT !.should_conclude = r.should_conclude],
                   "round_complete",
                   Event("round_complete", g.round_num, ~r.should_conclude))

\* next(generator): run from the yield the frame is suspended at to the next
gen_next(w, g, st, ok, reply) ==
    CASE g.pc = "start" -> GenOpen(w, g)
      [] g.pc \in {"judge", "round_complete"} -> GenLoop(w, g, st)
      [] g.pc = "round_start" -> GenHistory(w, g)
      [] g.pc = "plaintiff_speaking" -> GenPlaintiffTurn(w, g, st, ok)
      [] g.pc = "plaintiff_done" -> GenDefenseAnnounce(w, g)
      [] g.pc = "defense_speaking" -> GenDefenseTurn(w, g, st, ok)
      [] g.pc = "defense_done" -> GenConclusion(w, g, st, reply)
      [] OTHER -> [w |-> w, g |-> [g EXCEPT !.pc = "finished"], event |-> NoEvent]

\* ---------------------------------------------------------------------------
\* app.py main(): the driver.  A click stores the pending action and reruns
\* the script, which executes the handler inside try/except and reruns
\* again; the buttons are disabled meanwhile, so a handler runs to its end
\* before the next click.  The autonomous trial is stepped from yield to
\* yield of the generator it iterates.
\* ---------------------------------------------------------------------------
NoLast ==
    [action |-> "none", raised |-> FALSE, pre_phase |-> AWAITING_COMPLAINT,
     pre_round |-> 0, pre_calls |-> 0, pre_transcript |-> 0,
     first_transcript |-> 0, fault |-> "none", fail_round |-> 0,
     guided |-> -1, args_from |-> 0]

\* first_transcript is the length of the transcript when the first of a run
\* of attempts at the same action was started: a click that repeats the
\* action that has just failed continues the run; guided is the number of
\* guided rounds that have returned since run_opening_statements returned
\* from start_arguments, -1 while it has not, and args_from the length of
\* the transcript at that return
Started(action, o) ==
    [action |-> action, raised |-> FALSE, pre_phase |-> o.phase,
     pre_round |-> o.current_round, pre_calls |-> Len(calls),
     pre_transcript |-> Len(o.transcript),
     first_transcript |-> IF last.action = action /\ last.raised
                          THEN last.first_transcript
                          ELSE Len(o.transcript),
     fault |-> "none", fail_round |-> 0,
     guided |-> last.guided, args_from |-> last.args_from]

NewSession == [upload_processed |-> FALSE, running |-> FALSE, failures |-> 0]

DriverIdle ==
    /\ gen = NewGenerator
    /\ events = <<>>
    /\ answers = <<>>
    /\ session = NewSession
    /\ last = NoLast

\* ---------------------------------------------------------------------------
\* SpecVerdict: a panel is built from a profile list, then queried
\* ---------------------------------------------------------------------------
NoOut == [status |-> "none"]

InitVerdict ==
    /\ profiles \in AllSeqs(ScoreDomain, MaxJurors)
    /\ jury = NoJury
    /\ avg_out = NoOut
    /\ verdict_out = NoOut
    /\ settings = DefaultSettings
    /\ orch = TrialOrchestrator
    /\ calls = <<>>
    /\ conclude_out = NoOut
    /\ call_out = NoOut
    /\ DriverIdle

\* JurorSwarm(): __init__ then _load_jurors; any subset of profiles may fail
JurorSwarmInit ==
    /\ ~jury.assigned
    /\ \E failing \in SUBSET (1..Len(profiles)) :
         jury' = [assigned |-> TRUE, jurors |-> load_jurors(profiles, failing),
                  vote_history |-> <<>>]
    /\ UNCHANGED <<profiles, avg_out, verdict_out, orchVars, driverVars>>

\* the outcome of a call together with the scores the panel held at the call
CallRecord(ret, js) == ret @@ [scores |-> Scores(js)]

GetAverageScore ==
    /\ jury.assigned
    /\ avg_out' = CallRecord(get_average_score(jury.jurors), jury.jurors)
    /\ UNCHANGED <<profiles, jury, verdict_out, orchVars, driverVars>>

GetVerdict ==
    /\ jury.assigned
    /\ verdict_out' = CallRecord(get_verdict(jury.jurors), jury.jurors)
    /\ UNCHANGED <<profiles, jury, avg_out, orchVars, driverVars>>

NextVerdict == JurorSwarmInit \/ GetAverageScore \/ GetVerdict

SpecVerdict == InitVerdict /\ [][NextVerdict]_vars

\* ---------------------------------------------------------------------------
\* Properties of the verdict aggregation (checked under SpecVerdict)
\* ---------------------------------------------------------------------------

\* C1: get_verdict is strictly binary with the tie going to the defense: it
\* returns PLAINTIFF exactly when the average of the juror scores is greater
\* than 50, and otherwise (an average of exactly 50 included) DEFENSE with
\* damages 0.
C1_VerdictBinaryTieToDefense ==
    verdict_out.status # "none" =>
        /\ verdict_out.status = "ok"
        /\ verdict_out.verdict \in {"PLAINTIFF", "DEFENSE"}
        /\ LET sc == verdict_out.scores
               above == Len(sc) > 0 /\ SumSeq(sc) > 50 * Len(sc)
           IN  /\ (verdict_out.verdict = "PLAINTIFF") <=> above
               /\ ~above => (verdict_out.verdict = "DEFENSE" /\ verdict_out.damages = 0)

\* a panel of differing scores whose average is exactly 50 got DEFENSE
C1_Witness ==
    /\ verdict_out.status = "ok"
    /\ Len(verdict_out.scores) >= 2
    /\ \E i \in 1..Len(verdict_out.scores) : verdict_out.scores[i] > 50
    /\ SumSeq(verdict_out.scores) = 50 * Len(verdict_out.scores)
    /\ verdict_out.verdict = "DEFENSE"

\* num/den rounded to the nearest integer (num >= 0, den > 0)
RoundNearest(num, den) == (2 * num + den) \div (2 * den)

\* C2: for every panel whose average exceeds 50 the damages equal
\* (average - 50) * 20000 rounded to the nearest integer.
C2_DamagesRounded ==
    (verdict_out.status = "ok" /\ verdict_out.verdict = "PLAINTIFF") =>
        LET sc == verdict_out.scores
        IN  verdict_out.damages =
                RoundNearest(20000 * (SumSeq(sc) - 50 * Len(sc)), Len(sc))

\* C3: with an empty juror panel get_average_score returns 50.0 and
\* get_verdict returns DEFENSE with damages 0; neither operation fails, for
\* an empty or a partially constructed panel.
C3_EmptyPanelNeutral ==
    /\ avg_out.status \in {"none", "ok"}
    /\ verdict_out.status \in {"none", "ok"}
    /\ (avg_out.status = "ok" /\ avg_out.scores = <<>>) =>
           (avg_out.num = 50 * avg_out.den)
    /\ (verdict_out.status = "ok" /\ verdict_out.scores = <<>>) =>
           (verdict_out.verdict = "DEFENSE" /\ verdict_out.damages = 0)

\* every profile failed construction, and both operations were called on the
\* resulting empty panel
C3_Witness ==
    /\ Len(profiles) > 0
    /\ jury.assigned
    /\ jury.jurors = <<>>
    /\ avg_out.status = "ok"
    /\ verdict_out.status = "ok"

\* ---------------------------------------------------------------------------
\* SpecConclude: should_conclude_debate called directly on an assembled court
\* ---------------------------------------------------------------------------
MaxSetting == 6

MaxRoundNum == 7

\* texts the judge may answer with
JudgeTexts ==
    { CONCLUDE,
      <<"c", "o", "n", "c", "l", "u", "d", "e">>,
      <<"I", " ", "C", "o", "n", "c", "l", "u", "d", "e", ".">>,
      <<"C", "O", "N", "T", "I", "N", "U", "E">>,
      <<"C", "O", "N", "C", "L", "U", "S", "I", "O", "N">>,
      <<>> }

JudgeReplies == {Reply(t) : t \in JudgeTexts} \cup {FailedReply}

AssembledCourt ==
    initialize_court(set_case(TrialOrchestrator, "facts", "title"), "none").o

InitConclude ==
    /\ profiles = <<>>
    /\ jury = [NoJury EXCEPT !.assigned = TRUE]
    /\ avg_out = NoOut
    /\ verdict_out = NoOut
    /\ settings \in [autonomous_min_rounds : 0..MaxSetting,
                     autonomous_max_rounds : 0..MaxSetting]
    /\ orch = AssembledCourt
    /\ calls = <<>>
    /\ conclude_out = NoOut
    /\ call_out = NoOut
    /\ DriverIdle

\* orch.should_conclude_debate(round_num), the judge answering with reply
ShouldConcludeDebate ==
    \E round_num \in 0..MaxRoundNum, reply \in JudgeReplies :
        LET r == should_conclude_debate(orch, <<>>, settings, round_num, reply)
        IN  /\ conclude_out' = [status |-> IF r.raised THEN "raised" ELSE "ok",
                                round_num |-> round_num,
                                reply |-> reply,
                                consulted |-> Len(r.log) > 0,
                                should_conclude |-> r.should_conclude]
            /\ UNCHANGED <<panelVars, settings, orch, calls, call_out, driverVars>>

NextConclude == ShouldConcludeDebate

SpecConclude == InitConclude /\ [][NextConclude]_vars

\* the text holds the letters c-o-n-c-l-u-d-e in a row, each in either case
HasConcludeAnyCase(t) ==
    LET lower == <<"c", "o", "n", "c", "l", "u", "d", "e">>
    IN  \E i \in 0..(Len(t) - 8) :
            \A j \in 1..8 : t[i + j] \in {CONCLUDE[j], lower[j]}

\* C4: with minRounds=2 and maxRounds=5, should_conclude_debate(1) returns
\* 'continue' and should_conclude_debate(5) returns 'conclude' without the
\* judge being consulted, whatever the judge would answer; the judge is
\* consulted exactly for rounds 2, 3 and 4, where the result is 'conclude' if
\* and only if the judge's answer contains CONCLUDE in any letter case.
C4_FloorCeilingDefaults ==
    (conclude_out.status # "none" /\ settings = DefaultSettings) =>
        /\ conclude_out.round_num = 1 =>
              (conclude_out.status = "ok" /\ ~conclude_out.should_conclude)
        /\ conclude_out.round_num = 5 =>
              (conclude_out.status = "ok" /\ conclude_out.should_conclude)
        /\ conclude_out.consulted <=> conclude_out.round_num \in {2, 3, 4}
        /\ (conclude_out.round_num \in {2, 3, 4} /\ conclude_out.reply.ok) =>
              /\ conclude_out.status = "ok"
              /\ conclude_out.should_conclude <=>
                     HasConcludeAnyCase(conclude_out.reply.text)

\* under the default settings the judge was asked in round 3 and answered
\* with a mixed-case text holding "Conclude"
C4_Witness ==
    /\ conclude_out.status = "ok"
    /\ settings = DefaultSettings
    /\ conclude_out.round_num = 3
    /\ conclude_out.consulted
    /\ conclude_out.should_conclude
    /\ conclude_out.reply.text # CONCLUDE

\* C5 as stated: for every setting and every round number r the result is
\* 'conclude' whenever r >= autonomous_max_rounds and 'continue' whenever
\* r < autonomous_min_rounds, whatever the judge answers.
C5_Original ==
    conclude_out.status # "none" =>
        /\ conclude_out.round_num >= settings.autonomous_max_rounds =>
              (conclude_out.status = "ok" /\ conclude_out.should_conclude)
        /\ conclude_out.round_num < settings.autonomous_min_rounds =>
              (conclude_out.status = "ok" /\ ~conclude_out.should_conclude)

\* C5 (amended): for every setting and every round number r the result is
\* 'continue' whenever r < autonomous_min_rounds (even if r >=
\* autonomous_max_rounds), and 'conclude' whenever r >= autonomous_max_rounds
\* and r >= autonomous_min_rounds, whatever the judge answers and without the
\* judge being consulted.
C5_FloorBeforeCeiling ==
    conclude_out.status # "none" =>
        /\ conclude_out.round_num < settings.autonomous_min_rounds =>
              /\ conclude_out.status = "ok"
              /\ ~conclude_out.should_conclude
              /\ ~conclude_out.consulted
        /\ (/\ conclude_out.round_num >= settings.autonomous_max_rounds
            /\ conclude_out.round_num >= settings.autonomous_min_rounds) =>
              /\ conclude_out.status = "ok"
              /\ conclude_out.should_conclude
              /\ ~conclude_out.consulted

\* the floor lies above the ceiling and a round between them was asked about
C5_Witness ==
    /\ conclude_out.status = "ok"
    /\ settings.autonomous_min_rounds > settings.autonomous_max_rounds
    /\ conclude_out.round_num >= settings.autonomous_max_rounds
    /\ conclude_out.round_num < settings.autonomous_min_rounds
    /\ ~conclude_out.should_conclude

\* ---------------------------------------------------------------------------
\* Spec: one driver session
\* ---------------------------------------------------------------------------
MaxMinRounds == 2

MaxMaxRounds == 3

\* guided rounds the driver is followed through
MaxGuidedRounds == 2

\* handler invocations that fail, per case
MaxFailures == 1

\* the jurors.json of the session
DriverProfiles == <<50, 52>>

CONTINUE == <<"C", "O", "N", "T", "I", "N", "U", "E">>

DebateReplies ==
    {Reply(<<"c", "o", "n", "c", "l", "u", "d", "e">>), Reply(CONTINUE), FailedReply}

JurorReplies ==
    {Reply(<<"S", "C", "O", "R", "E", ":", " ", "7", "0">>), FailedReply}

\* the orders in which n workers may complete
Orders(n) == {p \in [1..n -> 1..n] : \A i, j \in 1..n : p[i] = p[j] => i = j}

Init ==
    /\ profiles = DriverProfiles
    /\ jury = NoJury
    /\ avg_out = NoOut
    /\ verdict_out = NoOut
    /\ settings \in {DefaultSettings} \cup
                     [autonomous_min_rounds : 1..MaxMinRounds,
                      autonomous_max_rounds : 1..MaxMaxRounds]
    /\ orch = TrialOrchestrator
    /\ calls = <<>>
    /\ conclude_out = NoOut
    /\ call_out = NoOut
    /\ DriverIdle

Idle == ~session.running

MayFail == session.failures < MaxFailures

\* the guided rounds returned so far, after the handler of action has run
GuidedAfter(action, raised) ==
    CASE raised -> last.guided
      [] action = "opening" -> 0
      [] action = "argument" /\ last.guided >= 0 -> last.guided + 1
      [] OTHER -> last.guided

\* the state after a handler has run on the world w
Commit(w, action) ==
    /\ orch' = w.o
    /\ jury' = w.jury
    /\ calls' = w.log
    /\ last' = [Started(action, orch) EXCEPT
                    !.raised = w.raised,
                    !.guided = GuidedAfter(action, w.raised),
                    !.args_from = IF action = "opening" /\ ~w.raised
                                  THEN Len(w.o.transcript) ELSE @]
    /\ session' = [session EXCEPT !.failures = IF w.raised THEN @ + 1 ELSE @]

\* the file uploader: set_case once per case
Upload ==
    /\ Idle
    /\ ~session.upload_processed
    /\ orch' = set_case(orch, "facts", "title")
    /\ session' = [session EXCEPT !.upload_processed = TRUE]
    /\ last' = Started("upload", orch)
    /\ UNCHANGED <<panelVars, settings, calls, conclude_out, call_out, gen, events, answers>>

\* "Initialize Court"
InitializeCourt ==
    /\ Idle
    /\ orch.phase = AWAITING_COMPLAINT
    /\ orch.case_facts # None
    /\ \E fail_at \in {"none", "judge", "plaintiff", "defense", "jury"},
          failing \in SUBSET (1..Len(profiles)) :
         LET r == initialize_court(orch, fail_at)
         IN  /\ fail_at # "none" => MayFail
             /\ orch' = r.o
             /\ jury' = IF r.o.jury # None
                        THEN [assigned |-> TRUE,
                              jurors |-> load_jurors(profiles, failing),
                              vote_history |-> <<>>]
                        ELSE jury
             /\ last' = [Started("initialize", orch) EXCEPT !.raised = ~r.ret,
                                                            !.fault = fail_at]
             /\ session' = [session EXCEPT !.failures = IF r.ret THEN @ ELSE @ + 1]
    /\ UNCHANGED <<profiles, avg_out, verdict_out, settings, calls, conclude_out, call_out,
                   gen, events, answers>>

\* "Begin Trial": run_opening_statements
BeginTrial ==
    /\ Idle
    /\ orch.phase = COURT_ASSEMBLED
    /\ \E p_out \in StreamOutcomes, d_out \in StreamOutcomes :
         LET w == run_opening_statements(World(orch, jury, calls), p_out, d_out)
         IN  /\ w.raised => MayFail
             /\ Commit(w, "opening")
    /\ UNCHANGED <<profiles, avg_out, verdict_out, settings, conclude_out, call_out,
                   gen, events, answers>>

\* "Next Round": run_argument_round
NextRound ==
    /\ Idle
    /\ orch.phase = ARGUMENTS
    /\ orch.current_round <= MaxGuidedRounds
    /\ \E p_out \in StreamOutcomes, d_out \in StreamOutcomes :
         LET w == run_argument_round(World(orch, jury, calls), p_out, d_out)
         IN  /\ w.raised => MayFail
             /\ Commit(w, "argument")
    /\ UNCHANGED <<profiles, avg_out, verdict_out, settings, conclude_out, call_out,
                   gen, events, answers>>

\* "Begin Deliberation": run_jury_deliberation
BeginDeliberation ==
    /\ Idle
    /\ orch.phase = ARGUMENTS
    /\ orch.current_round > 1
    /\ \E replies \in [1..Len(jury.jurors) -> JurorReplies],
          order \in Orders(Len(jury.jurors)) :
         LET w == run_jury_deliberation(World(orch, jury, calls), replies, order)
         IN  /\ w.raised => MayFail
             /\ Commit(w, "jury")
    /\ UNCHANGED <<profiles, avg_out, verdict_out, settings, conclude_out, call_out,
                   gen, events, answers>>

\* "Render Verdict": run_verdict
RenderVerdict ==
    /\ Idle
    /\ orch.phase = JURY_DELIBERATION
    /\ \E summary_ok \in BOOLEAN :
         LET w == run_verdict(World(orch, jury, calls), summary_ok)
         IN  /\ w.raised => MayFail
             /\ Commit(w, "verdict")
             /\ verdict_out' = IF w.raised THEN verdict_out
                               ELSE CallRecord(get_verdict(jury.jurors), jury.jurors)
    /\ UNCHANGED <<profiles, avg_out, settings, conclude_out, call_out, gen, events, answers>>

\* "Auto Trial": run_autonomous_trial creates the generator
AutoTrial ==
    /\ Idle
    /\ orch.phase = COURT_ASSEMBLED
    /\ gen' = NewGenerator
    /\ events' = <<>>
    /\ answers' = <<>>
    /\ session' = [session EXCEPT !.running = TRUE]
    /\ last' = Started("autonomous", orch)
    /\ UNCHANGED <<panelVars, settings, orch, calls, conclude_out, call_out>>

\* one iteration of `for update in orch.run_autonomous_debate()`; an
\* exception leaves run_autonomous_trial and is caught by main()
DebateStep ==
    /\ session.running
    /\ gen.pc \notin {"debate_complete", "dead", "finished"}
    /\ \E ok \in BOOLEAN, reply \in DebateReplies :
         LET r == gen_next(World(orch, jury, calls), gen, settings, ok, reply)
             died == r.g.pc = "dead"
         IN  /\ died => MayFail
             /\ orch' = r.w.o
             /\ calls' = r.w.log
             /\ gen' = r.g
             /\ events' = IF died THEN events ELSE Append(events, r.event)
             /\ answers' = IF gen.pc = "defense_done" THEN Append(answers, reply)
                           ELSE answers
             /\ session' = [session EXCEPT !.running = ~died,
                                           !.failures = IF died THEN @ + 1 ELSE @]
             /\ last' = IF died
                        THEN [last EXCEPT !.raised = TRUE, !.fail_round = gen.round_num]
                        ELSE last
    /\ UNCHANGED <<panelVars, settings, conclude_out, call_out>>

\* the generator is exhausted; run_autonomous_trial goes on with
\* run_jury_deliberation and run_verdict
AutoTrialFinish ==
    /\ session.running
    /\ gen.pc = "debate_complete"
    /\ \E replies \in [1..Len(jury.jurors) -> JurorReplies],
          order \in Orders(Len(jury.jurors)),
          summary_ok \in BOOLEAN :
         LET w0 == World(orch, jury, calls)
             w1 == run_jury_deliberation(w0, replies, order)
             w2 == run_verdict(w1, summary_ok)
         IN  /\ w2.raised => MayFail
             /\ orch' = w2.o
             /\ jury' = w2.jury
             /\ calls' = w2.log
             /\ verdict_out' = IF w2.raised THEN verdict_out
                               ELSE CallRecord(get_verdict(w2.jury.jurors), w2.jury.jurors)
             /\ gen' = [gen EXCEPT !.pc = "finished"]
             /\ session' = [session EXCEPT !.running = FALSE,
                                           !.failures = IF w2.raised THEN @ + 1 ELSE @]
             /\ last' = [last EXCEPT !.raised = w2.raised]
    /\ UNCHANGED <<profiles, avg_out, settings, conclude_out, call_out, events, answers>>

\* "Export": export_transcript writes the file; nothing the program reads
\* later is changed
Export ==
    /\ Idle
    /\ orch.phase = ADJOURNED
    /\ export_transcript(orch, jury.jurors).phase = ADJOURNED
    /\ last' = Started("export", orch)
    /\ UNCHANGED <<panelVars, orchVars, gen, events, answers, session>>

\* "New Case": a fresh orchestrator and session
NewCase ==
    /\ Idle
    /\ orch.phase = ADJOURNED
    /\ orch' = TrialOrchestrator
    /\ jury' = NoJury
    /\ calls' = <<>>
    /\ avg_out' = NoOut
    /\ verdict_out' = NoOut
    /\ gen' = NewGenerator
    /\ events' = <<>>
    /\ answers' = <<>>
    /\ session' = NewSession
    /\ last' = NoLast
    /\ UNCHANGED <<profiles, settings, conclude_out, call_out>>

Next ==
    \/ Upload
    \/ InitializeCourt
    \/ BeginTrial
    \/ NextRound
    \/ BeginDeliberation
    \/ RenderVerdict
    \/ AutoTrial
    \/ DebateStep
    \/ AutoTrialFinish
    \/ Export
    \/ NewCase

Spec == Init /\ [][Next]_vars

\* ---------------------------------------------------------------------------
\* Properties of the autonomous debate and of the guided round (under Spec)
\* ---------------------------------------------------------------------------
CountEvents(type) == Cardinality({k \in 1..Len(events) : events[k].type = type})

LastEvent == events[Len(events)]

\* the reply is a text that holds CONCLUDE in some letter case
Concludes(reply) == reply.ok /\ HasConcludeAnyCase(reply.text)

\* C6: when 1 <= minRounds <= maxRounds and every generation call succeeds, a
\* fully iterated run_autonomous_debate executes r rounds with
\* minRounds <= r <= maxRounds, and r is the first round >= minRounds at
\* which the judge answers CONCLUDE, or maxRounds.
C6_RoundsWithinFloorAndCeiling ==
    (/\ gen.pc = "debate_complete"
     /\ 1 <= settings.autonomous_min_rounds
     /\ settings.autonomous_min_rounds <= settings.autonomous_max_rounds) =>
        LET r == CountEvents("round_complete")
        IN  /\ settings.autonomous_min_rounds <= r
            /\ r <= settings.autonomous_max_rounds
            /\ r = settings.autonomous_max_rounds \/ Concludes(answers[r])
            /\ \A q \in settings.autonomous_min_rounds..(r - 1) : ~Concludes(answers[q])

\* the judge let round 1 pass and concluded round 2 of at most 3
C6_Witness ==
    /\ gen.pc = "debate_complete"
    /\ settings.autonomous_min_rounds = 1
    /\ settings.autonomous_max_rounds = 3
    /\ CountEvents("round_complete") = 2

RoundPattern ==
    <<"round_start", "plaintiff_speaking", "plaintiff_done",
      "defense_speaking", "defense_done", "round_complete">>

\* the calls and the transcript entries the debate has made so far
DebateCalls == SubSeq(calls, last.pre_calls + 1, Len(calls))

DebateTranscript ==
    SubSeq(orch.transcript, last.pre_transcript + 1, Len(orch.transcript))

\* the number of returned calls of the agent among the first n of the debate
OkCallsBefore(agent, n) ==
    Cardinality({i \in 1..n : DebateCalls[i].agent = agent /\ DebateCalls[i].ok})

RECURSIVE TypesOf(_, _)
TypesOf(tr, types) ==
    IF tr = <<>> THEN <<>>
    ELSE IF Head(tr).agent_type \in types
         THEN <<Head(tr).agent_type>> \o TypesOf(Tail(tr), types)
         ELSE TypesOf(Tail(tr), types)

\* C7: the events yielded by run_autonomous_debate are strictly ordered: one
\* judge opening event first; then in every round round_start,
\* plaintiff_speaking, plaintiff_done, defense_speaking, defense_done,
\* round_complete in that order; no event of round N+1 before round_complete
\* of round N; the plaintiff's generation call is issued and recorded before
\* the defense's, and the conclusion check is made only after both.
C7_EventsStrictlyOrdered ==
    (last.action = "autonomous" /\ gen.pc # "finished") =>
        /\ \A k \in 1..Len(events) :
             IF k = 1 THEN events[k].type = "judge"
             ELSE \/ /\ events[k].type = "debate_complete"
                     /\ k = Len(events)
                     /\ (k - 2) % 6 = 0
                  \/ /\ events[k].type = RoundPattern[((k - 2) % 6) + 1]
                     /\ events[k].round = ((k - 2) \div 6) + 1
        /\ \A i \in 1..Len(DebateCalls) :
             LET p == OkCallsBefore("plaintiff", i - 1)
                 d == OkCallsBefore("defense", i - 1)
             IN  /\ DebateCalls[i].agent \in {"plaintiff", "defense", "judge"}
                 /\ DebateCalls[i].agent = "plaintiff" => p = d
                 /\ DebateCalls[i].agent = "defense" => p = d + 1
                 /\ DebateCalls[i].agent = "judge" => (p = d /\ p >= 1)
        /\ OkCallsBefore("plaintiff", Len(DebateCalls)) = CountEvents("plaintiff_done")
        /\ OkCallsBefore("defense", Len(DebateCalls)) = CountEvents("defense_done")
        /\ LET t == TypesOf(DebateTranscript, {"plaintiff", "defense"})
           IN  /\ Len(t) = CountEvents("plaintiff_done") + CountEvents("defense_done")
               /\ \A i \in 1..Len(t) :
                    t[i] = IF i % 2 = 1 THEN "plaintiff" ELSE "defense"

\* round 2 has been completed after round 1
C7_Witness ==
    /\ last.action = "autonomous"
    /\ gen.pc = "round_complete"
    /\ Len(events) = 13
    /\ LastEvent.round = 2

C8_Safe ==
    /\ Len(events) <= 2 + 6 * Max(0, settings.autonomous_max_rounds)
    /\ gen.pc \in {"debate_complete", "finished"} =>
          /\ events # <<>>
          /\ LastEvent.type = "debate_complete"
          /\ LastEvent.round = CountEvents("round_complete")
    /\ gen.pc = "debate_complete" => orch.phase = JURY_DELIBERATION

\* every resumption of the generator yields one more event or ends it
C8_Progress ==
    (session.running /\ gen.pc # "debate_complete" /\ gen' # gen) =>
        \/ Len(events') = Len(events) + 1
        \/ gen'.pc = "dead"

\* C8: if every generation call returns and the caller keeps iterating,
\* run_autonomous_debate finishes after at most 2 + 6*maxRounds events; its
\* last event is debate_complete, whose total_rounds is the number of rounds
\* executed, and the phase is JuryDeliberation when that event is observed,
\* until another operation is invoked.
C8_DebateTerminates == []C8_Safe /\ [][C8_Progress]_vars

\* the longest debate: every round up to the ceiling was executed
C8_Witness ==
    /\ gen.pc = "debate_complete"
    /\ settings.autonomous_max_rounds = MaxMaxRounds
    /\ Len(events) = 2 + 6 * settings.autonomous_max_rounds
    /\ LastEvent.round = settings.autonomous_max_rounds

\* C9: if the plaintiff's or the defense's generation fails during a guided
\* argument round, the failure propagates to the caller and the
\* orchestrator's phase and current_round afterwards equal their values
\* before the round was started.
C9_FailedRoundKeepsPhaseAndRound ==
    last.action = "argument" =>
        /\ last.raised <=> ~calls[Len(calls)].ok
        /\ last.raised =>
              /\ orch.phase = last.pre_phase
              /\ orch.current_round = last.pre_round

\* the defense's generation failed after the plaintiff's turn was recorded
C9_Witness ==
    /\ last.action = "argument"
    /\ last.raised
    /\ calls[Len(calls)].agent = "defense"
    /\ orch.transcript[Len(orch.transcript)].content.tpl = "JUDGE_DEFENSE_RESPOND"

\* C10: if a generation call fails while run_autonomous_debate is being
\* iterated, a failure in round 1 leaves phase and current_round as they were
\* before the debate was invoked, and a failure in round r > 1 leaves
\* current_round counting only the r-1 completed rounds.
C10_FailedDebateKeepsCommittedState ==
    (last.action = "autonomous" /\ last.raised /\ gen.pc = "dead") =>
        /\ last.fail_round = 1 =>
              (orch.phase = last.pre_phase /\ orch.current_round = last.pre_round)
        /\ last.fail_round > 1 => orch.current_round = last.fail_round - 1

\* the agent types of the entries the transcript has gained since it had n
EntryTypesSince(n) ==
    [i \in 1..(Len(orch.transcript) - n) |-> orch.transcript[n + i].agent_type]

\* the entries run_argument_round adds when it succeeds at the first attempt
RoundEntryTypes == <<"judge", "plaintiff", "judge", "defense">>

\* C11: a guided argument round that is re-issued after it failed partway and
\* then succeeds leaves the transcript with the same judge, plaintiff and
\* defense entries for that round as a round that succeeded at the first
\* attempt: no entry of the failed attempt is duplicated.
C11_RetriedRoundAddsNoDuplicate ==
    (last.action = "argument" /\ ~last.raised) =>
        EntryTypesSince(last.first_transcript) = RoundEntryTypes

\* C12: initialize_court succeeds only if the judge, both lawyers and the
\* juror panel are all constructed: if any construction raises (a missing
\* jurors file included) it returns False and the phase stays
\* AwaitingComplaint; if all succeed it returns True and the phase becomes
\* CourtAssembled.
C12_InitializeAllOrFails ==
    last.action = "initialize" =>
        /\ last.raised <=> last.fault # "none"
        /\ last.raised => orch.phase = AWAITING_COMPLAINT
        /\ ~last.raised =>
              /\ orch.phase = COURT_ASSEMBLED
              /\ orch.judge # None
              /\ orch.plaintiff_lawyer # None
              /\ orch.defense_lawyer # None
              /\ orch.jury # None
              /\ jury.assigned

\* the juror panel could not be constructed after the judge and both lawyers
C12_Witness ==
    /\ last.action = "initialize"
    /\ last.fault = "jury"
    /\ last.raised
    /\ orch.defense_lawyer # None

\* C13: initialize_court is atomic: when it fails, none of judge,
\* plaintiff_lawyer, defense_lawyer and jury is left assigned and no
\* agent-announcement entry of the failed attempt remains in the transcript.
C13_InitializeAtomic ==
    (last.action = "initialize" /\ last.raised) =>
        /\ orch.judge = None
        /\ orch.plaintiff_lawyer = None
        /\ orch.defense_lawyer = None
        /\ orch.jury = None
        /\ \A i \in (last.pre_transcript + 1)..Len(orch.transcript) :
              orch.transcript[i].agent_name # "COURT"

\* C14: under any sequence of driver actions on one orchestrator, actions
\* that fail partway included, the phase never moves backward in the order
\* AwaitingComplaint < CourtAssembled < OpeningStatements < Arguments <
\* JuryDeliberation < Verdict < Adjourned ("New Case" makes another
\* orchestrator).
C14_PhaseNeverMovesBackward ==
    [][NewCase \/ PhaseRank(orch'.phase) >= PhaseRank(orch.phase)]_vars

\* a debate that failed partway after its first round was taken on by the
\* guided deliberation
C14_Witness ==
    /\ gen.pc = "dead"
    /\ last.action = "jury"
    /\ ~last.raised
    /\ orch.phase = JURY_DELIBERATION

\* the handlers of the guided path; each assigns the phase at most once, as
\* its last statement, so the phases an orchestrator passes through on that
\* path are the phases seen between its handlers
GuidedActions == {"upload", "initialize", "opening", "argument", "jury", "verdict"}

\* C15: no phase is skipped: a trial driven along the guided path passes
\* through every phase in order, OpeningStatements and Verdict included (a
\* guided handler leaves the phase where it was or moves it to the next one).
C15_GuidedPathSkipsNoPhase ==
    last.action \in GuidedActions =>
        PhaseRank(orch.phase) <= PhaseRank(last.pre_phase) + 1

\* ---------------------------------------------------------------------------
\* SpecOrch: a client that calls the operations of one TrialOrchestrator
\* directly and in any order.  The operations have no precondition in the
\* code.
\* ---------------------------------------------------------------------------
\* advance_round is called while current_round is below this
MaxOrchRound == 2

\* set_case and initialize_court are called while the transcript is no longer
\* than this
MaxTranscript == 3

InitOrch ==
    /\ profiles = DriverProfiles
    /\ jury = NoJury
    /\ avg_out = NoOut
    /\ verdict_out = NoOut
    /\ settings = DefaultSettings
    /\ orch = TrialOrchestrator
    /\ calls = <<>>
    /\ conclude_out = NoOut
    /\ call_out = NoOut
    /\ DriverIdle

Room == Len(orch.transcript) <= MaxTranscript

CallSetCase ==
    /\ Room
    /\ orch' = set_case(orch, "facts", "title")
    /\ last' = Started("set_case", orch)
    /\ UNCHANGED <<panelVars, settings, calls, conclude_out, call_out, gen, events, answers,
                   session>>

CallInitializeCourt ==
    /\ Room
    /\ \E fail_at \in {"none", "judge", "plaintiff", "defense", "jury"},
          failing \in SUBSET (1..Len(profiles)) :
         LET r == initialize_court(orch, fail_at)
         IN  /\ fail_at # "none" => MayFail
             /\ orch' = r.o
             /\ jury' = IF fail_at = "none"
                        THEN [assigned |-> TRUE,
                              jurors |-> load_jurors(profiles, failing),
                              vote_history |-> <<>>]
                        ELSE jury
             /\ last' = [Started("initialize_court", orch) EXCEPT !.raised = ~r.ret,
                                                                  !.fault = fail_at]
             /\ session' = [session EXCEPT !.failures = IF r.ret THEN @ ELSE @ + 1]
    /\ UNCHANGED <<profiles, avg_out, verdict_out, settings, calls, conclude_out, call_out,
                   gen, events, answers>>

CallStartArguments ==
    /\ orch' = start_arguments(orch)
    /\ last' = Started("start_arguments", orch)
    /\ UNCHANGED <<panelVars, settings, calls, conclude_out, call_out, gen, events, answers,
                   session>>

CallAdvanceRound ==
    /\ orch.current_round < MaxOrchRound
    /\ orch' = advance_round(orch)
    /\ last' = Started("advance_round", orch)
    /\ UNCHANGED <<panelVars, settings, calls, conclude_out, call_out, gen, events, answers,
                   session>>

CallStartJuryDeliberation ==
    /\ orch' = start_jury_deliberation(orch)
    /\ last' = Started("start_jury_deliberation", orch)
    /\ UNCHANGED <<panelVars, settings, calls, conclude_out, call_out, gen, events, answers,
                   session>>

CallRenderVerdict ==
    /\ orch' = render_verdict(orch)
    /\ last' = Started("render_verdict", orch)
    /\ UNCHANGED <<panelVars, settings, calls, conclude_out, call_out, gen, events, answers,
                   session>>

CallAdjourn ==
    /\ orch' = adjourn(orch)
    /\ last' = Started("adjourn", orch)
    /\ UNCHANGED <<panelVars, settings, calls, conclude_out, call_out, gen, events, answers,
                   session>>

NextOrch ==
    \/ CallSetCase
    \/ CallInitializeCourt
    \/ CallStartArguments
    \/ CallAdvanceRound
    \/ CallStartJuryDeliberation
    \/ CallRenderVerdict
    \/ CallAdjourn

SpecOrch == InitOrch /\ [][NextOrch]_vars

\* the phase after an operation whose declared edge leads from the phases
\* `from` to the phase `to`
AlongEdge(from, to) ==
    orch.phase = IF last.pre_phase \in from THEN to ELSE last.pre_phase

\* C16: each transition operation of TrialOrchestrator moves the phase only
\* along its declared edge: start_arguments only from CourtAssembled or
\* OpeningStatements (and sets current_round to 1), start_jury_deliberation
\* only from Arguments, render_verdict only from JuryDeliberation, adjourn
\* only from JuryDeliberation or Verdict, initialize_court only from
\* AwaitingComplaint; invoked in any other phase the operation does not
\* change the phase.
C16_TransitionsFollowDeclaredEdges ==
    /\ last.action = "start_arguments" =>
          /\ AlongEdge({COURT_ASSEMBLED, OPENING_STATEMENTS}, ARGUMENTS)
          /\ last.pre_phase \in {COURT_ASSEMBLED, OPENING_STATEMENTS} =>
                orch.current_round = 1
    /\ last.action = "start_jury_deliberation" =>
          AlongEdge({ARGUMENTS}, JURY_DELIBERATION)
    /\ last.action = "render_verdict" =>
          AlongEdge({JURY_DELIBERATION}, VERDICT)
    /\ last.action = "adjourn" =>
          AlongEdge({JURY_DELIBERATION, VERDICT}, ADJOURNED)
    /\ (last.action = "initialize_court" /\ ~last.raised) =>
          AlongEdge({AWAITING_COMPLAINT}, COURT_ASSEMBLED)

C17_StartsNew ==
    last = NoLast =>
        /\ orch.phase = AWAITING_COMPLAINT
        /\ orch.current_round = 0
        /\ orch.transcript = <<>>

C17_AdjournedKept ==
    (orch.phase = ADJOURNED /\ ~NewCase) =>
        /\ orch'.phase = orch.phase
        /\ orch'.current_round = orch.current_round
        /\ orch'.transcript = orch.transcript

\* C17: a new orchestrator starts in AwaitingComplaint with current_round 0
\* and an empty transcript, and Adjourned is terminal in the driven flow: once
\* the phase is Adjourned, no action the driver offers changes that
\* orchestrator's phase, current_round or transcript (export only reads; a
\* new case creates a different orchestrator).
C17_NewToAdjourned == []C17_StartsNew /\ [][C17_AdjournedKept]_vars

\* the transcript of an adjourned trial has been exported
C17_Witness ==
    /\ last.action = "export"
    /\ orch.phase = ADJOURNED
    /\ orch.transcript # <<>>

\* C18: after start_arguments followed by k successful guided rounds,
\* current_round equals k+1 and the phase is still Arguments (start_arguments
\* gives round 1, each successful guided round adds exactly 1, a failed one
\* nothing); start_jury_deliberation then makes the phase JuryDeliberation
\* without changing current_round.
C18_RoundCounterFollowsGuidedRounds ==
    last.guided >= 0 =>
        /\ last.action \in {"opening", "argument"} =>
              /\ orch.phase = ARGUMENTS
              /\ orch.current_round = last.guided + 1
        /\ (last.action = "jury" /\ ~last.raised) =>
              /\ last.pre_phase = ARGUMENTS
              /\ orch.phase = JURY_DELIBERATION
              /\ orch.current_round = last.pre_round
              /\ orch.current_round = last.guided + 1
        /\ (last.action = "jury" /\ last.raised) =>
              /\ orch.phase = ARGUMENTS
              /\ orch.current_round = last.guided + 1

\* two guided rounds returned, one attempt in between failed, and the
\* deliberation has started in round 3
C18_Witness ==
    /\ last.action = "jury"
    /\ ~last.raised
    /\ last.guided = MaxGuidedRounds
    /\ session.failures > 0
    /\ orch.phase = JURY_DELIBERATION
    /\ orch.current_round = MaxGuidedRounds + 1

\* ---------------------------------------------------------------------------
\* SpecScenario: the end-to-end scenario, one step after the other; a step
\* that fails is repeated
\* ---------------------------------------------------------------------------
After(action) == last.action = action /\ ~last.raised

Retry(action) == last.action = action /\ last.raised

ScSetCase ==
    /\ last = NoLast
    /\ orch' = set_case(orch, "facts", "title")
    /\ last' = Started("set_case", orch)
    /\ UNCHANGED <<panelVars, settings, calls, conclude_out, call_out, gen, events, answers,
                   session>>

ScInitializeCourt ==
    /\ After("set_case") \/ Retry("initialize_court")
    /\ \E fail_at \in {"none", "judge", "plaintiff", "defense", "jury"},
          failing \in SUBSET (1..Len(profiles)) :
         LET r == initialize_court(orch, fail_at)
         IN  /\ fail_at # "none" => MayFail
             /\ orch' = r.o
             /\ jury' = IF fail_at = "none"
                        THEN [assigned |-> TRUE,
                              jurors |-> load_jurors(profiles, failing),
                              vote_history |-> <<>>]
                        ELSE jury
             /\ last' = [Started("initialize_court", orch) EXCEPT !.raised = ~r.ret,
                                                                  !.fault = fail_at]
             /\ session' = [session EXCEPT !.failures = IF r.ret THEN @ ELSE @ + 1]
    /\ UNCHANGED <<profiles, avg_out, verdict_out, settings, calls, conclude_out, call_out,
                   gen, events, answers>>

ScStartArguments ==
    /\ After("initialize_court")
    /\ orch' = start_arguments(orch)
    /\ last' = [Started("start_arguments", orch) EXCEPT
                    !.guided = 0, !.args_from = Len(orch.transcript)]
    /\ UNCHANGED <<panelVars, settings, calls, conclude_out, call_out, gen, events, answers,
                   session>>

\* one guided round, or several
ScGuidedRound ==
    /\ \/ After("start_arguments")
       \/ Retry("argument")
       \/ After("argument") /\ orch.current_round <= MaxGuidedRounds
    /\ \E p_out \in StreamOutcomes, d_out \in StreamOutcomes :
         LET w == run_argument_round(World(orch, jury, calls), p_out, d_out)
         IN  /\ w.raised => MayFail
             /\ orch' = w.o
             /\ jury' = w.jury
             /\ calls' = w.log
             /\ last' = [Started("argument", orch) EXCEPT
                             !.raised = w.raised,
                             !.guided = GuidedAfter("argument", w.raised)]
             /\ session' = [session EXCEPT !.failures = IF w.raised THEN @ + 1 ELSE @]
    /\ UNCHANGED <<profiles, avg_out, verdict_out, settings, conclude_out, call_out,
                   gen, events, answers>>

ScStartJuryDeliberation ==
    /\ After("argument")
    /\ orch' = start_jury_deliberation(orch)
    /\ last' = Started("start_jury_deliberation", orch)
    /\ UNCHANGED <<panelVars, settings, calls, conclude_out, call_out, gen, events, answers,
                   session>>

ScDeliberateParallel ==
    /\ After("start_jury_deliberation") \/ Retry("deliberate_parallel")
    /\ \E replies \in [1..Len(jury.jurors) -> JurorReplies],
          order \in Orders(Len(jury.jurors)) :
         LET r == deliberate_parallel(jury, calls, get_recent_arguments(orch, 4),
                                      replies, order)
         IN  /\ r.raised => MayFail
             /\ jury' = r.jury
             /\ calls' = r.log
             /\ last' = [Started("deliberate_parallel", orch) EXCEPT !.raised = r.raised]
             /\ session' = [session EXCEPT !.failures = IF r.raised THEN @ + 1 ELSE @]
    /\ UNCHANGED <<profiles, avg_out, verdict_out, orch, settings, conclude_out, call_out,
                   gen, events, answers>>

\* the verdict is computed and the phase set to Verdict
ScVerdict ==
    /\ After("deliberate_parallel")
    /\ verdict_out' = CallRecord(get_verdict(jury.jurors), jury.jurors)
    /\ orch' = render_verdict(orch)
    /\ last' = Started("verdict", orch)
    /\ UNCHANGED <<profiles, jury, avg_out, settings, calls, conclude_out, call_out,
                   gen, events, answers, session>>

ScAdjourn ==
    /\ After("verdict")
    /\ orch' = adjourn(orch)
    /\ last' = Started("adjourn", orch)
    /\ UNCHANGED <<panelVars, settings, calls, conclude_out, call_out, gen, events, answers,
                   session>>

InitScenario ==
    /\ profiles = DriverProfiles
    /\ jury = NoJury
    /\ avg_out = NoOut
    /\ verdict_out = NoOut
    /\ settings = DefaultSettings
    /\ orch = TrialOrchestrator
    /\ calls = <<>>
    /\ conclude_out = NoOut
    /\ call_out = NoOut
    /\ DriverIdle

NextScenario ==
    \/ ScSetCase
    \/ ScInitializeCourt
    \/ ScStartArguments
    \/ ScGuidedRound
    \/ ScStartJuryDeliberation
    \/ ScDeliberateParallel
    \/ ScVerdict
    \/ ScAdjourn

SpecScenario == InitScenario /\ [][NextScenario]_vars

\* the steps of the scenario that record what they did
RecordingSteps == {"set_case", "initialize_court", "argument"}

\* C19 as stated: in the end-to-end scenario (set_case, initialize_court,
\* start_arguments, one guided round, start_jury_deliberation, juror
\* deliberation, verdict and adjourn) the transcript length strictly
\* increases at each step.
C19_Original ==
    (last.action # "none" /\ ~last.raised) =>
        Len(orch.transcript) > last.pre_transcript

\* C19 (amended): in the end-to-end scenario the transcript length never
\* shrinks at any step, failed ones included; it strictly increases at
\* set_case, at initialize_court and at a guided round that returns, and is
\* left as it was by start_arguments, start_jury_deliberation, the panel's
\* deliberate_parallel, the verdict and adjourn.
C19_TranscriptGrowsAtRecordingSteps ==
    last.action # "none" =>
        /\ Len(orch.transcript) >= last.pre_transcript
        /\ (last.action \in RecordingSteps /\ ~last.raised) =>
              Len(orch.transcript) > last.pre_transcript
        /\ last.action \notin RecordingSteps =>
              Len(orch.transcript) = last.pre_transcript

\* the scenario has been carried to its end, with one guided round
C19_Witness ==
    /\ last.action = "adjourn"
    /\ orch.phase = ADJOURNED
    /\ orch.current_round = 2
    /\ verdict_out.status = "ok"
    /\ Len(jury.vote_history) = 1
    /\ Len(orch.transcript) > 0

\* s is a prefix of t
IsPrefix(s, t) == Len(s) <= Len(t) /\ SubSeq(t, 1, Len(s)) = s

\* C20: the transcript of one orchestrator is append-only: across any
\* sequence of operations, including operations that fail, every step other
\* than the replacement of the orchestrator by a new one leaves the
\* transcript it found as a prefix of the transcript it leaves, so the
\* transcript at any later state has the transcript of every earlier state as
\* a prefix (no entry is deleted, reordered or rewritten).
C20_TranscriptAppendOnly ==
    [][NewCase \/ IsPrefix(orch.transcript, orch'.transcript)]_vars

\* a handler raised after it had added entries to a transcript that was not
\* empty
C20_Witness ==
    /\ last.raised
    /\ last.pre_transcript > 0
    /\ Len(orch.transcript) > last.pre_transcript

\* no generation call of a lawyer has failed
NoFailedRound ==
    \A i \in 1..Len(calls) :
        calls[i].agent \in {"plaintiff", "defense"} => calls[i].ok

\* C21: after N successful guided rounds following start_arguments on a
\* transcript with no earlier lawyer entries, the transcript contains exactly
\* 2N lawyer entries (N plaintiff, N defense) that alternate plaintiff then
\* defense in round order, and each round has contributed exactly two judge
\* announcements: the entries added since start_arguments are, round after
\* round, the judge's announcement of the round, the plaintiff's entry, the
\* judge's call on the defense and the defense's entry.
C21_GuidedRoundsFillTranscript ==
    (last.guided >= 0 /\ NoFailedRound) =>
        LET N == last.guided
            since == EntryTypesSince(last.args_from)
            lawyers == TypesOf(orch.transcript, {"plaintiff", "defense"})
        IN  /\ Len(since) = 4 * N
            /\ \A i \in 1..Len(since) : since[i] = RoundEntryTypes[((i - 1) % 4) + 1]
            /\ Len(lawyers) = 2 * N
            /\ \A k \in 1..Len(lawyers) :
                   lawyers[k] = IF k % 2 = 1 THEN "plaintiff" ELSE "defense"
            /\ \A r \in 1..N :
                   /\ orch.transcript[last.args_from + 4 * (r - 1) + 1].content
                          = Content("JUDGE_ARGUMENT_ROUND", r)
                   /\ orch.transcript[last.args_from + 4 * (r - 1) + 3].content
                          = Content("JUDGE_DEFENSE_RESPOND", 0)

\* two guided rounds have returned and none has failed
C21_Witness ==
    /\ last.action = "argument"
    /\ ~last.raised
    /\ last.guided = MaxGuidedRounds
    /\ NoFailedRound
    /\ Len(orch.transcript) = last.args_from + 4 * MaxGuidedRounds

\* ---------------------------------------------------------------------------
\* SpecJuror: think and deliberate called directly on one JurorBrain
\* ---------------------------------------------------------------------------
\* calls made on the juror
MaxJurorCalls == 2

\* initial_bias_score values a jurors.json may hold; the file is read with
\* json.load and the value is taken as it is
StartScores == {-5, 0, 50, 100, 150}

\* response texts of the completion service
\* 'SCORE: 70'
T_Score70 ==
    <<"S", "C", "O", "R", "E", ":", " ", "7", "0">>

\* 'SCORE: 9999'
T_Score9999 ==
    <<"S", "C", "O", "R", "E", ":", " ", "9", "9", "9", "9">>

\* 'SCORE: -5'
T_ScoreMinus5 ==
    <<"S", "C", "O", "R", "E", ":", " ", "-", "5">>

\* 'SCORE: high'
T_ScoreWord ==
    <<"S", "C", "O", "R", "E", ":", " ", "h", "i", "g", "h">>

\* 'SCORE:'
T_ScoreEmpty ==
    <<"S", "C", "O", "R", "E", ":">>

\* 'score: 7'
T_ScoreLower ==
    <<"s", "c", "o", "r", "e", ":", " ", "7">>

\* 'SCORE: 12/100'
T_ScoreOfHundred ==
    <<"S", "C", "O", "R", "E", ":", " ", "1", "2", "/", "1", "0", "0">>

\* 'SCORE: 1:30'
T_ScoreTwoColons ==
    <<"S", "C", "O", "R", "E", ":", " ", "1", ":", "3", "0">>

\* ' SCORE: 70'
T_ScoreIndented ==
    <<" ", "S", "C", "O", "R", "E", ":", " ", "7", "0">>

\* 'no format'
T_Plain ==
    <<"n", "o", " ", "f", "o", "r", "m", "a", "t">>

\* ''
T_Empty ==
    <<>>

\* 'THOUGHTS: a b \nSCORE: 30'
T_ThoughtsThenScore ==
    <<"T", "H", "O", "U", "G", "H", "T", "S", ":", " ", "a", " ", "b", " ", NL, "S", "C",
      "O", "R", "E", ":", " ", "3", "0">>

\* 'SCORE: 30\nnote\nTHOUGHTS: a b'
T_ScoreThenThoughts ==
    <<"S", "C", "O", "R", "E", ":", " ", "3", "0", NL, "n", "o", "t", "e", NL, "T", "H",
      "O", "U", "G", "H", "T", "S", ":", " ", "a", " ", "b">>

\* 'THOUGHTS: x: y'
T_ThoughtsOnly ==
    <<"T", "H", "O", "U", "G", "H", "T", "S", ":", " ", "x", ":", " ", "y">>

JurorTexts ==
    {T_Score70, T_Score9999, T_ScoreMinus5, T_ScoreWord,
     T_ScoreEmpty, T_ScoreLower, T_ScoreOfHundred, T_ScoreTwoColons,
     T_ScoreIndented, T_Plain, T_Empty, T_ThoughtsThenScore,
     T_ScoreThenThoughts, T_ThoughtsOnly}

ParseReplies == {Reply(t) : t \in JurorTexts} \cup {FailedReply}

InitJuror ==
    /\ profiles \in {<<s>> : s \in StartScores}
    /\ jury = [assigned |-> TRUE, jurors |-> load_jurors(profiles, {}),
               vote_history |-> <<>>]
    /\ avg_out = NoOut
    /\ verdict_out = NoOut
    /\ settings = DefaultSettings
    /\ orch = TrialOrchestrator
    /\ calls = <<>>
    /\ conclude_out = NoOut
    /\ call_out = NoOut
    /\ DriverIdle

\* the outcome of a think or deliberate call of the juror
JurorCallRecord(op, reply, before, r) ==
    [status |-> IF r.raised THEN "raised" ELSE "ok",
     n |-> IF call_out = NoOut THEN 1 ELSE call_out.n + 1,
     op |-> op,
     reply |-> reply,
     before |-> before.current_bias_score,
     result |-> r.result,
     after |-> r.juror.current_bias_score]

MoreJurorCalls == IF call_out = NoOut THEN TRUE ELSE call_out.n < MaxJurorCalls

\* juror.think(context)
JurorThink ==
    /\ MoreJurorCalls
    /\ \E reply \in ParseReplies :
         LET r == think(jury.jurors[1], reply)
         IN  /\ jury' = [jury EXCEPT !.jurors[1] = r.juror]
             /\ call_out' = JurorCallRecord("think", reply, jury.jurors[1], r)
    /\ UNCHANGED <<profiles, avg_out, verdict_out, orchVarsButOut, conclude_out,
                   driverVars>>

\* juror.deliberate(context)
JurorDeliberate ==
    /\ MoreJurorCalls
    /\ \E reply \in ParseReplies :
         LET r == deliberate(jury.jurors[1], reply)
         IN  /\ jury' = [jury EXCEPT !.jurors[1] = r.juror]
             /\ call_out' = JurorCallRecord("deliberate", reply, jury.jurors[1], r)
    /\ UNCHANGED <<profiles, avg_out, verdict_out, orchVarsButOut, conclude_out,
                   driverVars>>

\* get_juror_response(juror) of the driver's deliberation step: generate,
\* then the driver's own scan of the response
get_juror_response(juror, reply) ==
    IF ~reply.ok
    THEN [juror |-> juror, result |-> NoResult, raised |-> TRUE]
    ELSE LET score == ExtractScore(juror.current_bias_score, reply.text)
         IN  [juror |-> [juror EXCEPT !.current_bias_score = score],
              result |-> [monologue |-> reply.text, bias_score |-> score],
              raised |-> FALSE]

\* the worker of run_jury_deliberation on the juror
JurorDriverResponse ==
    /\ MoreJurorCalls
    /\ \E reply \in ParseReplies :
         LET r == get_juror_response(jury.jurors[1], reply)
         IN  /\ jury' = [jury EXCEPT !.jurors[1] = r.juror]
             /\ call_out' = JurorCallRecord("get_juror_response", reply,
                                            jury.jurors[1], r)
    /\ UNCHANGED <<profiles, avg_out, verdict_out, orchVarsButOut, conclude_out,
                   driverVars>>

NextJuror == JurorThink \/ JurorDeliberate \/ JurorDriverResponse

\* the last call was a think or deliberate call of the juror
ParserCall == call_out.status # "none" /\ call_out.op \in {"think", "deliberate"}

SpecJuror == InitJuror /\ [][NextJuror]_vars

\* C22: after any deliberate or think call, for every response text the model
\* may return and every starting score a juror profile configures, the
\* juror's current_bias_score satisfies 0 <= score <= 100.
C22_ScoreAlwaysWithinRange ==
    (call_out.status = "ok" /\ ParserCall) =>
        /\ 0 <= jury.jurors[1].current_bias_score
        /\ jury.jurors[1].current_bias_score <= 100

\* C23: a response whose score line is "SCORE: -5" leaves the juror's
\* current_bias_score unchanged (the previous score is retained and
\* returned).
C23_NegativeScoreRetained ==
    (call_out.status = "ok" /\ ParserCall /\ call_out.reply.text = T_ScoreMinus5) =>
        /\ call_out.after = call_out.before
        /\ call_out.result.bias_score = call_out.before

\* the lines of the text that start with the prefix, in any letter case
LinesWith(text, prefix) ==
    LET lines == SplitOn(text, NL)
    IN  {i \in 1..Len(lines) : StartsWith(Upper(lines[i]), prefix)}

\* the characters the score is read from: the first three after the last
\* colon of the line, stripped
Extracted(line) ==
    LET parts == SplitOn(line, ":")
    IN  Take(Strip(parts[Len(parts)]), 3)

\* C24: parsing a juror response never raises, for any response text (a call
\* fails only when the generation itself fails): with no SCORE: line, or a
\* SCORE: line whose extracted characters contain no digit, the juror's score
\* is unchanged and returned as is; with no THOUGHTS: line the monologue is
\* the entire raw response; extra lines and any ordering of the lines are
\* tolerated.
C24_ParseNeverFails ==
    ParserCall =>
        /\ call_out.status = "raised" <=> ~call_out.reply.ok
        /\ call_out.reply.ok =>
              LET text == call_out.reply.text
                  lines == SplitOn(text, NL)
              IN  /\ (\A i \in LinesWith(text, SCORE_COLON) :
                         \A k \in 1..Len(Extracted(lines[i])) :
                             ~IsDigit(Extracted(lines[i])[k])) =>
                         /\ call_out.after = call_out.before
                         /\ call_out.result.bias_score = call_out.before
                  /\ LinesWith(text, THOUGHTS_COLON) = {} =>
                         call_out.result.monologue = text
                  /\ text \in {T_ThoughtsThenScore, T_ScoreThenThoughts} =>
                         /\ call_out.after = 30
                         /\ call_out.result.bias_score = 30
                         /\ call_out.result.monologue = <<"a", " ", "b">>

\* the score line came before the thoughts, with a line in between, and both
\* were read
C24_Witness ==
    /\ call_out.status = "ok"
    /\ ParserCall
    /\ call_out.reply.text = T_ScoreThenThoughts
    /\ call_out.before # 30
    /\ call_out.after = 30

\* ---------------------------------------------------------------------------
\* SpecFanOut: the parallel juror fan-out, one step of one thread at a time.
\* call_out is the frame of the call: site is "swarm" for
\* JurorSwarm.deliberate_parallel and "app" for run_jury_deliberation; pc[i]
\* is the position of the task of juror i; by is the thread that took the
\* last step (MainThread, or i for the task of juror i).
\* ---------------------------------------------------------------------------
MaxPanel == 3

\* the thread that calls deliberate_parallel / run_jury_deliberation
MainThread == 0

\* settings.parallel_jury_workers is drawn from 1..MaxWorkers
MaxWorkers == 2

FanReplies == {Reply(T_Score70), FailedReply}

InitFanOut ==
    /\ profiles \in {[i \in 1..n |-> 50 + 2 * i] : n \in 0..MaxPanel}
    /\ jury = [assigned |-> TRUE, jurors |-> load_jurors(profiles, {}),
               vote_history |-> <<>>]
    /\ avg_out = NoOut
    /\ verdict_out = NoOut
    /\ settings = DefaultSettings
    /\ orch = TrialOrchestrator
    /\ calls = <<>>
    /\ conclude_out = NoOut
    /\ call_out = NoOut
    /\ DriverIdle

FanOutFrame(site, workers, replies, with_callback) ==
    [status |-> "running", site |-> site, workers |-> workers, replies |-> replies,
     with_callback |-> with_callback,
     pc |-> [i \in 1..Len(jury.jurors) |-> "queued"],
     got |-> [i \in 1..Len(jury.jurors) |-> -1],
     collected |-> <<>>, votes |-> <<>>, callbacks |-> <<>>,
     before |-> Scores(jury.jurors), by |-> MainThread]

FanOutRest == <<profiles, avg_out, verdict_out, orchVarsButOut, conclude_out, driverVars>>

\* the executor is created and every juror's task is submitted
FanOutSubmit ==
    /\ call_out = NoOut
    /\ \E site \in {"swarm", "app"}, workers \in 1..MaxWorkers,
          replies \in [1..Len(jury.jurors) -> FanReplies],
          with_callback \in BOOLEAN :
         /\ site = "app" => ~with_callback
         /\ call_out' = FanOutFrame(site, workers, replies, with_callback)
    /\ UNCHANGED <<jury, FanOutRest>>

InFlight == call_out # NoOut /\ call_out.status \in {"running", "raising"}

\* a free worker takes the task of juror i and issues the generation call
TaskStart(i) ==
    /\ InFlight
    /\ call_out.pc[i] = "queued"
    /\ Cardinality({j \in DOMAIN call_out.pc : call_out.pc[j] \in {"called", "answered"}})
           < call_out.workers
    /\ call_out' = [call_out EXCEPT !.pc[i] = "called", !.by = i]
    /\ UNCHANGED <<jury, FanOutRest>>

\* the call of task i returns: the score is parsed and stored in juror i, or
\* the call has failed and the task ends with the exception
TaskAnswer(i) ==
    /\ InFlight
    /\ call_out.pc[i] = "called"
    /\ LET reply == call_out.replies[i]
           old == jury.jurors[i].current_bias_score
           score == IF call_out.site = "swarm"
                    THEN parse_response(old, reply.text)
                    ELSE ExtractScore(old, reply.text)
       IN  IF reply.ok
           THEN /\ jury' = [jury EXCEPT !.jurors = WorkerWrite(@, i, score)]
                /\ call_out' = [call_out EXCEPT !.pc[i] = "answered",
                                                !.got[i] = score, !.by = i]
           ELSE /\ jury' = jury
                /\ call_out' = [call_out EXCEPT !.pc[i] = "failed", !.by = i]
    /\ UNCHANGED FanOutRest

\* the task of juror i returns its result: the future completes
TaskReturn(i) ==
    /\ InFlight
    /\ call_out.pc[i] = "answered"
    /\ call_out' = [call_out EXCEPT !.pc[i] = "done", !.by = i]
    /\ UNCHANGED <<jury, FanOutRest>>

Collected == {call_out.collected[k] : k \in 1..Len(call_out.collected)}

\* as_completed hands the calling thread a completed future: its result is
\* appended (and the callback called), or its exception is raised
MainCollect(i) ==
    /\ call_out # NoOut
    /\ call_out.status = "running"
    /\ call_out.pc[i] \in {"done", "failed"}
    /\ i \notin Collected
    /\ call_out' =
         IF call_out.pc[i] = "failed"
         THEN [call_out EXCEPT !.status = "raising", !.by = MainThread]
         ELSE [call_out EXCEPT
                  !.collected = Append(@, i),
                  !.votes = Append(@, JurorVote(jury.jurors[i], call_out.got[i])),
                  !.callbacks = IF call_out.with_callback
                                THEN Append(@, jury.jurors[i].id) ELSE @,
                  !.by = MainThread]
    /\ UNCHANGED <<jury, FanOutRest>>

\* every future was handed over: the executor is left and the votes are
\* appended to vote_history (deliberate_parallel only)
MainFinish ==
    /\ call_out # NoOut
    /\ call_out.status = "running"
    /\ Collected = DOMAIN call_out.pc
    /\ jury' = IF call_out.site = "swarm"
               THEN [jury EXCEPT !.vote_history = Append(@, call_out.votes)]
               ELSE jury
    /\ call_out' = [call_out EXCEPT !.status = "ok", !.by = MainThread]
    /\ UNCHANGED FanOutRest

\* the exception leaves the with block once every task has ended
MainRaise ==
    /\ call_out # NoOut
    /\ call_out.status = "raising"
    /\ \A i \in DOMAIN call_out.pc : call_out.pc[i] \in {"done", "failed"}
    /\ call_out' = [call_out EXCEPT !.status = "raised", !.by = MainThread]
    /\ UNCHANGED <<jury, FanOutRest>>

NextFanOut ==
    \/ FanOutSubmit
    \/ \E i \in 1..Len(jury.jurors) : TaskStart(i)
    \/ \E i \in 1..Len(jury.jurors) : TaskAnswer(i)
    \/ \E i \in 1..Len(jury.jurors) : TaskReturn(i)
    \/ \E i \in 1..Len(jury.jurors) : MainCollect(i)
    \/ MainFinish
    \/ MainRaise

SpecFanOut == InitFanOut /\ [][NextFanOut]_vars

\* C25: a successful deliberate_parallel on a panel of n jurors returns
\* exactly n votes, one for each juror (a permutation of the panel in
\* completion order), each vote's score being that juror's
\* current_bias_score at return, calls the optional callback once per juror,
\* and appends exactly one vote list (the returned one) to vote_history.
C25_OneVotePerJuror ==
    (call_out # NoOut /\ call_out.site = "swarm" /\ call_out.status = "ok") =>
        LET n == Len(jury.jurors)
            votes == call_out.votes
        IN  /\ Len(votes) = n
            /\ \A i \in 1..n : \E k \in 1..n : votes[k].juror_name = jury.jurors[i].id
            /\ \A k \in 1..n :
                   /\ votes[k].juror_name = jury.jurors[call_out.collected[k]].id
                   /\ votes[k].score =
                          jury.jurors[call_out.collected[k]].current_bias_score
            /\ call_out.callbacks =
                   IF call_out.with_callback
                   THEN [k \in 1..n |-> votes[k].juror_name] ELSE <<>>
            /\ jury.vote_history = <<votes>>

\* three jurors finished in an order other than the panel's, with a callback
C25_Witness ==
    /\ call_out # NoOut
    /\ call_out.site = "swarm"
    /\ call_out.status = "ok"
    /\ call_out.with_callback
    /\ Len(call_out.votes) = MaxPanel
    /\ call_out.collected[1] # 1
    /\ \E i \in 1..MaxPanel : jury.jurors[i].current_bias_score # call_out.before[i]

\* the panel as it was when the call started
PanelBefore ==
    [assigned |-> TRUE, jurors |-> load_jurors(profiles, {}), vote_history |-> <<>>]

\* the scores after a run that handles the jurors one after the other in
\* panel order and receives the same responses
SequentialScores ==
    LET n == Len(jury.jurors)
        inorder == [i \in 1..n |-> i]
    IN  IF call_out.site = "swarm"
        THEN Scores(deliberate_parallel(PanelBefore, <<>>, <<>>, call_out.replies,
                                        inorder).jury.jurors)
        ELSE Scores(run_jury_deliberation(World(orch, PanelBefore, <<>>),
                                          call_out.replies, inorder).jury.jurors)

SequentialVotes ==
    LET n == Len(jury.jurors)
        r == deliberate_parallel(PanelBefore, <<>>, <<>>, call_out.replies,
                                 [i \in 1..n |-> i])
    IN  {r.votes[k] : k \in 1..n}

C26_SameAsSequential ==
    (call_out # NoOut /\ call_out.status \in {"ok", "raised"}) =>
        /\ Scores(jury.jurors) = SequentialScores
        /\ call_out.status = "raised" <=>
               \E i \in 1..Len(jury.jurors) : ~call_out.replies[i].ok
        /\ (call_out.status = "ok" /\ call_out.site = "swarm") =>
               /\ {call_out.votes[k] : k \in 1..Len(call_out.votes)} = SequentialVotes
               /\ jury.vote_history = <<call_out.votes>>

C26_OwnWritesOnly ==
    (call_out # NoOut /\ call_out' # NoOut) =>
        /\ \A i \in 1..Len(jury.jurors) :
               jury'.jurors[i] # jury.jurors[i] => call_out'.by = i
        /\ (call_out'.votes # call_out.votes \/ jury'.vote_history # jury.vote_history
              \/ call_out'.callbacks # call_out.callbacks) =>
               call_out'.by = MainThread

\* C26: in the parallel juror fan-out, under every interleaving of the worker
\* tasks, each juror's score is written only by the task deliberating for
\* that juror, the result list and vote_history are appended to only by the
\* calling thread, and the final scores and the set of votes equal those of a
\* sequential run that receives the same responses.
C26_FanOutRaceFree == []C26_SameAsSequential /\ [][C26_OwnWritesOnly]_vars

\* with one worker fewer than tasks in flight, the last juror's task was
\* answered before the first juror's task was started, and the call returned
C26_Witness ==
    /\ call_out # NoOut
    /\ call_out.status = "ok"
    /\ Len(jury.jurors) = MaxPanel
    /\ call_out.workers < MaxPanel
    /\ call_out.collected[1] = MaxPanel
    /\ Scores(jury.jurors) # call_out.before

\* C27: during a driven trial, every change of a juror's current_bias_score
\* happens inside a JurorSwarm.deliberate_parallel call; no other component
\* (orchestrator or driver) writes a juror's score.  A deliberate_parallel
\* call that returns appends a vote list to vote_history, so while no handler
\* has failed a juror whose score differs from the one its profile configured
\* comes with a vote list.
C27_ScoresWrittenOnlyByPanel ==
    session.failures = 0 =>
        \A j \in 1..Len(jury.jurors) :
            jury.jurors[j].current_bias_score # profiles[jury.jurors[j].id] =>
                jury.vote_history # <<>>

\* ---------------------------------------------------------------------------
\* core/gemini_client.py : GeminiBrain
\* ---------------------------------------------------------------------------
\* GeminiBrain.__init__: api_key is the argument (None if not given),
\* settings_key is settings.gemini_api_key; genai.Client() makes no request
GeminiBrain(persona_name, system_instruction, api_key, settings_key, max_retries) ==
    LET key == IF api_key \in {None, ""} THEN settings_key ELSE api_key
    IN  IF key = ""
        THEN [status |-> "GeminiBrainError"]
        ELSE [status |-> "constructed",
              brain |-> [persona_name |-> persona_name,
                         system_instruction |-> system_instruction,
                         api_key |-> key,
                         max_retries |-> max_retries,
                         chat_history |-> <<>>]]

\* the terms that make an error retryable (line 139-141)
RetryableTerms ==
    {<<"r", "a", "t", "e", " ", "l", "i", "m", "i", "t">>,
     <<"q", "u", "o", "t", "a">>,
     <<"4", "2", "9">>,
     <<"5", "0", "3">>,
     <<"o", "v", "e", "r", "l", "o", "a", "d", "e", "d">>,
     <<"t", "i", "m", "e", "o", "u", "t">>}

\* is_retryable: a term occurs in str(e).lower()
is_retryable(error) == \E term \in RetryableTerms : Contains(Lower(error), term)

\* a variant of the loop test that allows one more attempt
MoreAttempts_one_more(f) == f.attempt <= f.brain.max_retries

\* for attempt in range(self._max_retries): another iteration follows
MoreAttempts(f) == f.attempt < f.brain.max_retries

\* an error raised by the completion service
ServiceError(text) == [ok |-> FALSE, text |-> text]

\* the frame of generate on entry
GenerateFrame(brain, use_chat) ==
    [status |-> "running", brain |-> brain, use_chat |-> use_chat,
     attempt |-> 0, outcomes |-> <<>>,
     sleeps |-> <<>>, result |-> None, kind |-> "none", cause |-> None]

\* an entry of _chat_history
ChatEntry(role, text) == [role |-> role, text |-> text]

\* lines 97-107: with use_chat the prompt is appended to _chat_history
\* before the service is called
WithUserEntry(f) ==
    IF f.use_chat
    THEN [f EXCEPT !.brain.chat_history = Append(@, ChatEntry("user", "prompt"))]
    ELSE f

\* lines 125-132: with use_chat the returned text is appended
WithModelEntry(f, text) ==
    IF f.use_chat
    THEN [f EXCEPT !.brain.chat_history = Append(@, ChatEntry("model", text))]
    ELSE f

\* a variant of generate_attempt that backs off and retries after any error
generate_attempt_retry_all(f, outcome) ==
    LET f1 == [WithUserEntry(f) EXCEPT !.outcomes = Append(@, outcome)]
    IN  IF outcome.ok
        THEN [WithModelEntry(f1, outcome.text) EXCEPT
                  !.status = "returned", !.result = outcome.text]
        ELSE IF f.attempt < f.brain.max_retries - 1
        THEN [f1 EXCEPT !.sleeps = Append(@, f.attempt), !.attempt = @ + 1]
        ELSE [f1 EXCEPT !.attempt = @ + 1]

\* one iteration of the loop of generate, the service answering with outcome:
\* the text is returned, or the error is kept as last_exception and then
\* the backoff is slept (retryable, attempts left), GeminiBrainError is
\* raised from it (not retryable), or the loop goes on to its end
generate_attempt(f, outcome) ==
    LET f1 == [WithUserEntry(f) EXCEPT !.outcomes = Append(@, outcome)]
    IN  IF outcome.ok
        THEN [WithModelEntry(f1, outcome.text) EXCEPT
                  !.status = "returned", !.result = outcome.text]
        ELSE IF is_retryable(outcome.text) /\ f.attempt < f.brain.max_retries - 1
        THEN [f1 EXCEPT !.sleeps = Append(@, f.attempt), !.attempt = @ + 1]
        ELSE IF ~is_retryable(outcome.text)
        THEN [f1 EXCEPT !.status = "raised", !.kind = "error",
                        !.cause = outcome.text]
        ELSE [f1 EXCEPT !.attempt = @ + 1]

\* the statement after the loop: GeminiBrainError from last_exception
generate_exhausted(f) ==
    [f EXCEPT !.status = "raised", !.kind = "exhausted",
              !.cause = IF f.outcomes = <<>> THEN None
                        ELSE f.outcomes[Len(f.outcomes)].text]

\* ---------------------------------------------------------------------------
\* SpecBrain: a GeminiBrain is constructed and generate is called on it
\* ---------------------------------------------------------------------------
\* settings.max_retries is drawn from 0..MaxRetries
MaxRetries == 3

\* errors of the completion service
\* '429 busy'
E_TooMany == <<"4", "2", "9", " ", "b", "u", "s", "y">>

\* 'Rate Limit hit'
E_RateLimit == <<"R", "a", "t", "e", " ", "L", "i", "m", "i", "t", " ", "h", "i", "t">>

\* 'TIMEOUT'
E_Timeout == <<"T", "I", "M", "E", "O", "U", "T">>

\* 'invalid key'
E_InvalidKey == <<"i", "n", "v", "a", "l", "i", "d", " ", "k", "e", "y">>

\* '500 internal'
E_Internal == <<"5", "0", "0", " ", "i", "n", "t", "e", "r", "n", "a", "l">>

ErrorTexts == {E_TooMany, E_RateLimit, E_Timeout, E_InvalidKey, E_Internal}

ServiceOutcomes == {Reply(T_Plain)} \cup {ServiceError(e) : e \in ErrorTexts}

InitBrain ==
    /\ profiles = <<>>
    /\ jury = NoJury
    /\ avg_out = NoOut
    /\ verdict_out = NoOut
    /\ settings = DefaultSettings
    /\ orch = TrialOrchestrator
    /\ calls = <<>>
    /\ conclude_out = NoOut
    /\ call_out = NoOut
    /\ DriverIdle

BrainRest == <<panelVars, orchVarsButOut, conclude_out, driverVars>>

\* GeminiBrain(persona_name, system_instruction, api_key=...)
BrainInit ==
    /\ call_out = NoOut
    /\ \E system_instruction \in {<<>>, T_Plain},
          api_key \in {None, "", "key-arg"},
          settings_key \in {"", "key-env"},
          max_retries \in 0..MaxRetries :
         call_out' = GeminiBrain("persona", system_instruction, api_key,
                                 settings_key, max_retries)
    /\ UNCHANGED BrainRest

\* brain.generate(prompt, use_chat) is entered
GenerateStart ==
    /\ call_out # NoOut
    /\ call_out.status = "constructed"
    /\ \E use_chat \in BOOLEAN :
         call_out' = GenerateFrame(call_out.brain, use_chat)
    /\ UNCHANGED BrainRest

Running == call_out # NoOut /\ call_out.status = "running"

\* one iteration of the loop
GenerateAttempt ==
    /\ Running
    /\ MoreAttempts(call_out)
    /\ \E outcome \in ServiceOutcomes :
         call_out' = generate_attempt(call_out, outcome)
    /\ UNCHANGED BrainRest

\* the loop has ended without a return
GenerateExhausted ==
    /\ Running
    /\ ~MoreAttempts(call_out)
    /\ call_out' = generate_exhausted(call_out)
    /\ UNCHANGED BrainRest

NextBrain == BrainInit \/ GenerateStart \/ GenerateAttempt \/ GenerateExhausted

SpecBrain == InitBrain /\ [][NextBrain]_vars

\* the frame of a generate call, entered or ended
InGenerate == call_out # NoOut /\ call_out.status \in {"running", "returned", "raised"}

\* the service calls made so far
ServiceCalls == Len(call_out.outcomes)

Failed(k) == ~call_out.outcomes[k].ok

C28_Bounded ==
    InGenerate =>
        /\ ServiceCalls <= call_out.brain.max_retries
        /\ call_out.attempt <= call_out.brain.max_retries
        /\ \A k \in 1..(ServiceCalls - 1) :
               Failed(k) /\ is_retryable(call_out.outcomes[k].text)
        /\ call_out.status = "returned" <=>
               (ServiceCalls > 0 /\ call_out.outcomes[ServiceCalls].ok)
        /\ call_out.status = "returned" =>
               call_out.result = call_out.outcomes[ServiceCalls].text
        /\ (/\ call_out.status = "raised"
            /\ ServiceCalls = call_out.brain.max_retries
            /\ \A k \in 1..ServiceCalls :
                   Failed(k) /\ is_retryable(call_out.outcomes[k].text)) =>
               /\ call_out.kind = "exhausted"
               /\ ServiceCalls > 0 => call_out.cause = call_out.outcomes[ServiceCalls].text
        /\ call_out.kind = "exhausted" =>
               /\ call_out.status = "raised"
               /\ ServiceCalls = call_out.brain.max_retries

\* a step of generate makes one service call at most and either ends the
\* call or uses up an attempt; an ended call makes no step
C28_Progress ==
    (InGenerate /\ call_out' # call_out) =>
        /\ call_out.status = "running"
        /\ Len(call_out'.outcomes) <= ServiceCalls + 1
        /\ \/ call_out'.status \in {"returned", "raised"}
           \/ call_out'.attempt = call_out.attempt + 1

\* C28: GeminiBrain.generate always terminates and makes at most max_retries
\* calls to the completion service: it returns the text of the first
\* successful call without calling again, and if all max_retries calls fail
\* with retryable errors it raises GeminiBrainError wrapping the last
\* underlying error.  Termination is stated for calls of the service that
\* return: every step ends the call or uses up one of max_retries attempts.
C28_GenerateBoundedRetries == []C28_Bounded /\ [][C28_Progress]_vars

\* three calls failed with retryable errors, the last one differing from the
\* first, and generate raised from the last
C28_Witness ==
    /\ InGenerate
    /\ call_out.status = "raised"
    /\ call_out.kind = "exhausted"
    /\ ServiceCalls = MaxRetries
    /\ call_out.outcomes[1].text # call_out.outcomes[MaxRetries].text
    /\ call_out.cause = call_out.outcomes[MaxRetries].text

\* C29: when a call inside GeminiBrain.generate fails with a non-retryable
\* error, at whichever attempt, generate raises GeminiBrainError at once: no
\* further service call is made and no backoff delay is taken after that
\* failure.
C29_FatalErrorRaisesAtOnce ==
    (InGenerate /\ \E k \in 1..ServiceCalls :
                       Failed(k) /\ ~is_retryable(call_out.outcomes[k].text)) =>
        /\ call_out.status = "raised"
        /\ call_out.kind = "error"
        /\ ~is_retryable(call_out.outcomes[ServiceCalls].text)
        /\ call_out.cause = call_out.outcomes[ServiceCalls].text
        /\ Len(call_out.sleeps) = ServiceCalls - 1
        /\ \A j \in 1..Len(call_out.sleeps) : call_out.sleeps[j] = j - 1

\* the second call failed with an error that is not retryable, after one
\* backoff
C29_Witness ==
    /\ InGenerate
    /\ call_out.status = "raised"
    /\ call_out.kind = "error"
    /\ ServiceCalls = 2
    /\ call_out.sleeps = <<0>>
    /\ call_out.brain.max_retries = MaxRetries

\* C30: constructing any persona agent fails immediately, at construction,
\* when the system instruction is empty or when no credential is available;
\* no agent with an empty system instruction or without a credential ever
\* exists to be called.
C30_ConstructionValidates ==
    (call_out # NoOut /\ call_out.status # "GeminiBrainError") =>
        /\ call_out.brain.system_instruction # <<>>
        /\ call_out.brain.api_key # ""

\* ---------------------------------------------------------------------------
\* SpecPanel: a panel is built from named profiles, then asked for its
\* size and scores
\* ---------------------------------------------------------------------------
\* profile.get("name"): None when the profile has no name
ProfileNames == {None, "Ann", "Unknown Juror"}

\* JurorBrain.name of the juror built from profile i
name(names, juror) ==
    IF names[juror.id] = None THEN "Unknown Juror" ELSE names[juror.id]

\* JurorSwarm.size
size(js) == Len(js)

\* JurorSwarm.get_scores: a dict keyed by name, a later juror of the same
\* name replacing the earlier one
get_scores(names, js) ==
    [n \in {name(names, js[i]) : i \in 1..Len(js)} |->
        LET i == CHOOSE i \in 1..Len(js) :
                     /\ name(names, js[i]) = n
                     /\ \A k \in (i + 1)..Len(js) : name(names, js[k]) # n
        IN  js[i].current_bias_score]

InitPanel ==
    /\ profiles \in {[i \in 1..n |-> 50 + 2 * i] : n \in 0..MaxJurors}
    /\ jury = NoJury
    /\ avg_out = NoOut
    /\ verdict_out = NoOut
    /\ settings = DefaultSettings
    /\ orch = TrialOrchestrator
    /\ calls = <<>>
    /\ conclude_out = NoOut
    /\ call_out = NoOut
    /\ DriverIdle

\* JurorSwarm(): the profiles carry names, any subset of them fails
PanelLoad ==
    /\ ~jury.assigned
    /\ \E names \in [1..Len(profiles) -> ProfileNames],
          failing \in SUBSET (1..Len(profiles)) :
         /\ jury' = [assigned |-> TRUE, jurors |-> load_jurors(profiles, failing),
                     vote_history |-> <<>>]
         /\ call_out' = [status |-> "loaded", names |-> names, failing |-> failing]
    /\ UNCHANGED <<profiles, avg_out, verdict_out, orchVarsButOut, conclude_out, driverVars>>

\* swarm.size and swarm.get_scores()
PanelGetScores ==
    /\ call_out # NoOut
    /\ call_out.status = "loaded"
    /\ call_out' = [status |-> "queried", names |-> call_out.names,
                    failing |-> call_out.failing,
                    size |-> size(jury.jurors),
                    get_scores |-> get_scores(call_out.names, jury.jurors)]
    /\ UNCHANGED <<panelVars, orchVarsButOut, conclude_out, driverVars>>

NextPanel == PanelLoad \/ PanelGetScores

SpecPanel == InitPanel /\ [][NextPanel]_vars

\* C31: panel construction tolerates individual failures: the panel consists
\* of exactly the successfully constructed jurors in profile order, its size
\* is the number of successes, and get_scores has exactly that many keys.
C31_PanelOfSuccesses ==
    (call_out # NoOut /\ call_out.status = "queried") =>
        LET ok == (1..Len(profiles)) \ call_out.failing
        IN  /\ call_out.size = Cardinality(ok)
            /\ {jury.jurors[i].id : i \in 1..Len(jury.jurors)} = ok
            /\ \A i, k \in 1..Len(jury.jurors) :
                   i < k => jury.jurors[i].id < jury.jurors[k].id
            /\ Cardinality(DOMAIN call_out.get_scores) = call_out.size

\* ---------------------------------------------------------------------------
\* Properties of the exported round count (checked under Spec)
\* ---------------------------------------------------------------------------
\* the argument rounds that have fully completed: the round_complete events
\* of the autonomous debate, or the guided rounds that have returned
CompletedRounds ==
    IF gen.pc = "finished" THEN CountEvents("round_complete")
    ELSE IF last.guided >= 0 THEN last.guided
    ELSE 0

\* C32: the rounds-completed value written by export_transcript equals the
\* number of argument rounds that have fully completed, on the guided path
\* and on the autonomous-debate path alike, and is never negative.  Stated
\* for an export in a session in which no action has failed.
C32_ExportedRoundsAreCompletedRounds ==
    (last.action = "export" /\ session.failures = 0) =>
        /\ export_transcript(orch, jury.jurors).rounds_completed = CompletedRounds
        /\ export_transcript(orch, jury.jurors).rounds_completed >= 0

\* the same on the guided path alone, where the value is right
C32_GuidedOnly ==
    (last.action = "export" /\ session.failures = 0 /\ gen.pc # "finished") =>
        /\ export_transcript(orch, jury.jurors).rounds_completed = CompletedRounds
        /\ export_transcript(orch, jury.jurors).rounds_completed >= 0

\* ---------------------------------------------------------------------------
\* Properties of the verdict handler (checked under Spec)
\* ---------------------------------------------------------------------------
\* the transcript entries announcing a verdict
VerdictEntries ==
    {k \in 1..Len(orch.transcript) :
        orch.transcript[k].content.tpl \in {"VERDICT: PLAINTIFF PREVAILS",
                                            "VERDICT: DEFENSE PREVAILS",
                                            "VERDICT: HUNG JURY"}}

\* C33: no reachable state produces a hung-jury outcome: the verdict value
\* computed by get_verdict is always PLAINTIFF or DEFENSE, so the hung-jury
\* branch of the verdict handler is never taken.
C33_NoHungJury ==
    /\ get_verdict(jury.jurors).status = "ok"
    /\ get_verdict(jury.jurors).verdict \in {"PLAINTIFF", "DEFENSE"}
    /\ verdict_out # NoOut => verdict_out.verdict \in {"PLAINTIFF", "DEFENSE"}
    /\ \A k \in VerdictEntries :
           orch.transcript[k].content.tpl # "VERDICT: HUNG JURY"

\* a verdict for the defense has been announced by the verdict handler
C33_Witness ==
    /\ last.action = "verdict"
    /\ ~last.raised
    /\ orch.phase = ADJOURNED
    /\ verdict_out # NoOut
    /\ verdict_out.verdict = "DEFENSE"
    /\ \E k \in VerdictEntries :
           orch.transcript[k].content.tpl = "VERDICT: DEFENSE PREVAILS"

\* ---------------------------------------------------------------------------
\* Properties of the prompts of a guided round (checked under Spec)
\* ---------------------------------------------------------------------------
\* the transcript as it was when the last action started
TranscriptBefore == SubSeq(orch.transcript, 1, last.pre_transcript)

\* the generation calls made by the last action
CallsOfLast == SubSeq(calls, last.pre_calls + 1, Len(calls))

\* C34: in a guided round with round number 1 the plaintiff's prompt is
\* built from the case facts only; with round number >= 2 it is built from
\* the most recent plaintiff entry and the most recent defense entry as of
\* the round's start; in every round the defense's prompt is built from the
\* plaintiff's response produced in that same round and the defense's most
\* recent entry from before the round (empty if none), each cut to 400
\* characters.
C34_GuidedPrompts ==
    (last.action = "argument" /\ CallsOfLast # <<>>) =>
        LET p == CallsOfLast[1]
            was_plaintiff == LastOf(TranscriptBefore, "plaintiff")
            was_defense == LastOf(TranscriptBefore, "defense")
        IN  /\ p.agent = "plaintiff"
            /\ last.pre_round = 1 =>
                   p.prompt = Prompt("PLAINTIFF_MAIN_ARGUMENT", <<orch.case_facts>>)
            /\ last.pre_round >= 2 =>
                   p.prompt = Prompt("PLAINTIFF_ARGUMENT_WITH_CONTEXT",
                                     <<Cut(was_plaintiff, 400), Cut(was_defense, 400)>>)
            /\ Len(CallsOfLast) <= 2
            /\ Len(CallsOfLast) = 2 =>
                   /\ CallsOfLast[2].agent = "defense"
                   /\ orch.transcript[last.pre_transcript + 2].agent_type = "plaintiff"
                   /\ CallsOfLast[2].prompt =
                          Prompt("DEFENSE_ARGUMENT_WITH_CONTEXT",
                                 <<Cut(orch.transcript[last.pre_transcript + 2].content, 400),
                                   Cut(was_defense, 400)>>)

\* a guided round of number 2 or more has returned, both sides having an
\* earlier entry and the plaintiff's new response differing from its last
C34_Witness ==
    /\ last.action = "argument"
    /\ ~last.raised
    /\ last.pre_round >= 2
    /\ Len(CallsOfLast) = 2
    /\ LastOf(TranscriptBefore, "plaintiff") # EmptyText
    /\ LastOf(TranscriptBefore, "defense") # EmptyText
    /\ LastOf(TranscriptBefore, "plaintiff") # orch.transcript[last.pre_transcript + 2].content

\* ---------------------------------------------------------------------------
\* Properties of the prompts of the autonomous debate (checked under Spec)
\* ---------------------------------------------------------------------------
\* the lawyer entries of the transcript, in transcript order
LawyerTurns == ContentsOf(orch.transcript, {"plaintiff", "defense"})

\* the prompt of the latest generation call
LatestPrompt == calls[Len(calls)].prompt

\* the prompts of the turn that has just been yielded carry the history the
\* claim names; lawyer_before is the number of lawyer entries the transcript
\* held when the debate started
AutonomousPromptsWith(lawyer_before) ==
    LET r == gen.round_num
        turns == LawyerTurns
    IN  /\ (gen.pc = "plaintiff_done" /\ r = 1) =>
               LatestPrompt = Prompt("PLAINTIFF_OPENING", <<>>)
        /\ (gen.pc = "defense_done" /\ r = 1) =>
               LatestPrompt = Prompt("DEFENSE_OPENING", <<>>)
        /\ (gen.pc = "plaintiff_done" /\ r > 1) =>
               /\ LatestPrompt.tpl = "PLAINTIFF_AUTONOMOUS_ARGUMENT"
               /\ Len(LatestPrompt.ctx) = lawyer_before + 2 * (r - 1)
               /\ LatestPrompt.ctx = SubSeq(turns, 1, Len(turns) - 1)
        /\ (gen.pc = "defense_done" /\ r > 1) =>
               /\ LatestPrompt.tpl = "DEFENSE_AUTONOMOUS_ARGUMENT"
               /\ Len(LatestPrompt.ctx) = lawyer_before + 2 * (r - 1) + 1
               /\ LatestPrompt.ctx = SubSeq(turns, 1, Len(turns) - 1)
               /\ orch.transcript[Len(orch.transcript) - 1].agent_type = "plaintiff"
               /\ LatestPrompt.ctx[Len(LatestPrompt.ctx)] =
                      orch.transcript[Len(orch.transcript) - 1].content

\* C35: in the autonomous debate, round 1 prompts carry no argument history;
\* in round r > 1 the plaintiff's prompt history consists of all 2(r-1)
\* earlier lawyer turns in transcript order, and the defense's prompt
\* history consists of those turns plus the plaintiff's turn of round r.
C35_AutonomousHistory == AutonomousPromptsWith(0)

\* the same for a debate started on a transcript without lawyer entries
C35_FreshDebate == session.failures = 0 => AutonomousPromptsWith(0)

\* ---------------------------------------------------------------------------
\* Properties of the line recognition of the juror parser (checked under
\* SpecJuror)
\* ---------------------------------------------------------------------------
\* the lines whose stripped text starts with the tag in some letter case and
\* whose extracted characters hold a digit
StrippedScoreLines(text) ==
    LET lines == SplitOn(text, NL)
    IN  {i \in 1..Len(lines) :
            /\ StartsWith(Upper(Strip(lines[i])), SCORE_COLON)
            /\ \E k \in 1..Len(Extracted(lines[i])) : IsDigit(Extracted(lines[i])[k])}

\* C36: for every response text, the juror parser recognises a line as a
\* score or thoughts line when its stripped, case-insensitive prefix is
\* SCORE: or THOUGHTS: (so leading whitespace does not hide the line), and
\* the new score is clamp(0, 100, integer formed by the digit characters
\* among the first 3 characters of the trimmed text after the line's last
\* colon); for example "SCORE: 9999" sets the score to 100.
C36_StrippedPrefixRecognised ==
    (/\ call_out.status = "ok"
     /\ ParserCall
     /\ StrippedScoreLines(call_out.reply.text) # {}) =>
        LET lines == SplitOn(call_out.reply.text, NL)
            i == CHOOSE i \in StrippedScoreLines(call_out.reply.text) :
                     \A k \in StrippedScoreLines(call_out.reply.text) : k <= i
            n == ToInt(FilterDigits(Extracted(lines[i])))
        IN  /\ call_out.after = Max(0, Min(100, n))
            /\ call_out.reply.text = T_Score9999 => call_out.after = 100

\* the same for lines that start with the tag without leading whitespace
C36_UnindentedLines ==
    (/\ call_out.status = "ok"
     /\ ParserCall
     /\ StrippedScoreLines(call_out.reply.text) # {}
     /\ call_out.reply.text # T_ScoreIndented) =>
        LET lines == SplitOn(call_out.reply.text, NL)
            i == CHOOSE i \in StrippedScoreLines(call_out.reply.text) :
                     \A k \in StrippedScoreLines(call_out.reply.text) : k <= i
            n == ToInt(FilterDigits(Extracted(lines[i])))
        IN  /\ call_out.after = Max(0, Min(100, n))
            /\ call_out.reply.text = T_Score9999 => call_out.after = 100

\* ---------------------------------------------------------------------------
\* Properties of the order of deliberation and verdict (checked under Spec)
\* ---------------------------------------------------------------------------
\* the transcript entries recorded for jurors
JurorEntries == {k \in 1..Len(orch.transcript) : orch.transcript[k].agent_type = "juror"}

\* C37: in the driven flow, guided or autonomous and including actions that
\* fail partway, a verdict is rendered only after the jury deliberation step
\* has completed for every juror of the panel: whenever the phase is
\* JURY_DELIBERATION and the driver offers the verdict, each juror has a
\* recorded deliberation entry in the transcript.
C37_VerdictAfterDeliberation ==
    (Idle /\ orch.phase = JURY_DELIBERATION) =>
        Cardinality(JurorEntries) >= Len(jury.jurors)

\* the same on the guided path alone
C37_GuidedOnly ==
    (Idle /\ orch.phase = JURY_DELIBERATION /\ gen = NewGenerator) =>
        Cardinality(JurorEntries) >= Len(jury.jurors)

\* ---------------------------------------------------------------------------
\* Properties of a failed fan-out (checked under SpecFanOut)
\* ---------------------------------------------------------------------------
\* C38: if any juror's generation fails during deliberate_parallel, the
\* failure propagates to the caller, vote_history is left unchanged, and no
\* juror's current_bias_score differs from its value before the call.
C38_FailedFanOutChangesNothing ==
    (/\ call_out # NoOut
     /\ call_out.site = "swarm"
     /\ call_out.status \in {"ok", "raised"}
     /\ \E i \in 1..Len(jury.jurors) : ~call_out.replies[i].ok) =>
        /\ call_out.status = "raised"
        /\ jury.vote_history = <<>>
        /\ Scores(jury.jurors) = call_out.before

\* the first two parts: the failure propagates and vote_history is unchanged
C38_FailurePropagates ==
    (/\ call_out # NoOut
     /\ call_out.site = "swarm"
     /\ call_out.status \in {"ok", "raised"}
     /\ \E i \in 1..Len(jury.jurors) : ~call_out.replies[i].ok) =>
        /\ call_out.status = "raised"
        /\ jury.vote_history = <<>>

\* ---------------------------------------------------------------------------
\* Properties of the chat history (checked under SpecBrain)
\* ---------------------------------------------------------------------------
\* the entries of the role in the chat history of the brain of the call
ChatEntriesOf(role) ==
    {k \in 1..Len(call_out.brain.chat_history) :
        call_out.brain.chat_history[k].role = role}

\* C39: a generate call with use_chat=True records its prompt in the chat
\* history at most once however many retries it takes: after a successful
\* call the history has grown by exactly one user entry and one model entry,
\* and after a failed call it holds no more than one new user entry.
C39_PromptRecordedOnce ==
    (InGenerate /\ call_out.use_chat) =>
        /\ Cardinality(ChatEntriesOf("user")) <= 1
        /\ call_out.status = "returned" =>
               /\ Cardinality(ChatEntriesOf("user")) = 1
               /\ Cardinality(ChatEntriesOf("model")) = 1
        /\ call_out.status = "raised" => Cardinality(ChatEntriesOf("model")) = 0

\* the same for calls that are answered or fail at the first attempt
C39_WithoutRetry ==
    (InGenerate /\ call_out.use_chat /\ ServiceCalls <= 1) =>
        /\ Cardinality(ChatEntriesOf("user")) <= 1
        /\ call_out.status = "returned" =>
               /\ Cardinality(ChatEntriesOf("user")) = 1
               /\ Cardinality(ChatEntriesOf("model")) = 1
        /\ call_out.status = "raised" => Cardinality(ChatEntriesOf("model")) = 0

\* ---------------------------------------------------------------------------
\* Properties of the two score extractions (checked under SpecJuror)
\* ---------------------------------------------------------------------------
\* the score the other extraction leaves for the response and prior score of
\* the call
OtherExtraction ==
    IF call_out.op = "get_juror_response"
    THEN parse_response(call_out.before, call_out.reply.text)
    ELSE ExtractScore(call_out.before, call_out.reply.text)

\* C40: the score extraction used by the driver's jury deliberation step and
\* JurorBrain._parse_response are equivalent: for every response text and
\* every prior score, both leave the juror with the same current_bias_score.
C40_ExtractionsEquivalent ==
    call_out.status = "ok" => call_out.after = OtherExtraction

\* the same for responses whose score lines start with the tag
C40_TagAtLineStart ==
    (call_out.status = "ok" /\ call_out.reply.text # T_ScoreIndented) =>
        call_out.after = OtherExtraction

====
